---------------------------- MODULE Spec2Model ----------------------------
(***************************************************************************)
(* Room Ventilation Advisor: the scoring engine (calculator.py) and the    *)
(* sensor platform that feeds it (sensor.py).                              *)
(*                                                                         *)
(* Number representation (the source computes in binary floating point):   *)
(*   temperatures, temperature thresholds   whole degrees Celsius          *)
(*   relative humidity                      whole percent                  *)
(*   absolute humidity                      1e-5 g/m3                      *)
(*   humidity thresholds                    tenths of g/m3                 *)
(*   wind speed, CO2                        whole units (m/s, ppm)         *)
(*   sub-factors f_t, f_rh, f_co2, f_time, f_w   tenths  (0.8 is 8)        *)
(*   weights                                hundredths (0.35 is 35)        *)
(*   unrounded score                        thousandths                    *)
(*   score (rounded to two decimals), score thresholds   hundredths        *)
(* An optional value (Python's None or a value) is the empty set or a      *)
(* singleton; a dict is a function whose DOMAIN is its key set.            *)
(***************************************************************************)
EXTENDS Integers, FiniteSets, Sequences, TLC

VARIABLES
    calculator,   \* the VentilationCalculator instance
    room_data,    \* the argument of the last calculator call
    result,       \* what the last calculator call returned
    entry,        \* the config entry: [data, options]
    hass_states,  \* hass.states as the coordinator last read it
    now,          \* datetime.now(UTC) as native_value last read it
    data,         \* coordinator.data
    sensor,       \* the VentilationSensor of the room
    flows,        \* the config or options flows in progress, by flow id
    config_entries \* hass.config_entries.async_entries(DOMAIN)

sensor_vars == <<entry, hass_states, now, data, sensor>>
vars ==
    <<calculator, room_data, result, entry, hass_states, now, data, sensor, flows,
      config_entries>>

----------------------------------------------------------------------------
(* Python values *)

None == {}
Some(v) == {v}
Val(x) == CHOOSE v \in x : TRUE

EmptyDict == [k \in {} |-> 0]

\* dict.get(key, default)
Get(d, key, default) == IF key \in DOMAIN d THEN d[key] ELSE default

\* dict with key set to value
Put(d, key, value) ==
    [k \in DOMAIN d \cup {key} |-> IF k = key THEN value ELSE d[k]]

----------------------------------------------------------------------------
(* const.py *)

ROOM_TYPE_LIVING_ROOM == "living_room"
ROOM_TYPE_BEDROOM == "bedroom"
ROOM_TYPE_BATHROOM == "bathroom"
ROOM_TYPE_KITCHEN == "kitchen"
ROOM_TYPE_OFFICE == "office"

ROOM_TYPES ==
    {ROOM_TYPE_LIVING_ROOM, ROOM_TYPE_BEDROOM, ROOM_TYPE_BATHROOM,
     ROOM_TYPE_KITCHEN, ROOM_TYPE_OFFICE}

DEFAULT_TEMPERATURE_THRESHOLDS ==
    [winter_good |-> 2, winter_moderate |-> 0,
     summer_good |-> 3, summer_moderate |-> 0,
     default_good |-> 1, default_moderate |-> -2]

DEFAULT_HUMIDITY_THRESHOLDS == [good |-> 10, moderate |-> 0]

DEFAULT_CO2_THRESHOLDS == [very_poor |-> 1200, poor |-> 1000, moderate |-> 800]

DEFAULT_WIND_THRESHOLDS == [no_effect |-> 15, moderate_effect |-> 25]

DEFAULT_SCORE_WEIGHTS ==
    [temperature |-> 35, humidity |-> 35, co2 |-> 20, time |-> 10,
     temperature_with_co2 |-> 25, humidity_with_co2 |-> 25,
     co2_with_sensor |-> 35, time_with_co2 |-> 15]

DEFAULT_TIME_FACTORS ==
    [high |-> {7, 8, 9, 18, 19, 20},
     moderate |-> {6, 10, 11, 16, 17, 21},
     low |-> {0, 1, 2, 3, 4, 5, 12, 13, 14, 15, 22, 23}]

DEFAULT_ROOM_TIME_PATTERNS ==
    [bedroom |->
        [high |-> {6, 7, 8, 9, 21, 22, 23},
         moderate |-> {5, 10, 20},
         low |-> {0, 1, 2, 3, 4, 11, 12, 13, 14, 15, 16, 17, 18, 19}],
     bathroom |->
        [high |-> {6, 7, 8, 9, 18, 19, 20, 21, 22},
         moderate |-> {5, 10, 17, 23},
         low |-> {0, 1, 2, 3, 4, 11, 12, 13, 14, 15, 16}],
     office |->
        [high |-> {8, 9, 10, 11, 12, 13, 14, 15, 16, 17},
         moderate |-> {7, 18, 19},
         low |-> {0, 1, 2, 3, 4, 5, 6, 20, 21, 22, 23}],
     kitchen |->
        [high |-> {6, 7, 8, 11, 12, 13, 17, 18, 19, 20},
         moderate |-> {9, 10, 16, 21},
         low |-> {0, 1, 2, 3, 4, 5, 14, 15, 22, 23}],
     living_room |->
        [high |-> {6, 7, 8, 9, 17, 18, 19, 20, 21, 22},
         moderate |-> {10, 11, 12, 13, 14, 15, 16},
         low |-> {0, 1, 2, 3, 4, 5, 23}]]

----------------------------------------------------------------------------
(* calculator.py: VentilationCalculator *)

\* __init__: the attributes loaded from the config, each with its default
VentilationCalculator(cfg) ==
    LET advanced == Get(cfg, "advanced_settings", EmptyDict)
        temp_thresholds == Get(advanced, "temperature_thresholds", EmptyDict)
        humidity_thresholds == Get(advanced, "humidity_thresholds", EmptyDict)
        co2_thresholds == Get(advanced, "co2_thresholds", EmptyDict)
        wind_thresholds == Get(advanced, "wind_thresholds", EmptyDict)
        score_weights == Get(advanced, "score_weights", EmptyDict)
        time_factors == Get(advanced, "time_factors", EmptyDict)
    IN  [config |-> cfg,
         temp_winter_good |->
            Get(temp_thresholds, "winter_good",
                DEFAULT_TEMPERATURE_THRESHOLDS.winter_good),
         temp_winter_moderate |->
            Get(temp_thresholds, "winter_moderate",
                DEFAULT_TEMPERATURE_THRESHOLDS.winter_moderate),
         temp_summer_good |->
            Get(temp_thresholds, "summer_good",
                DEFAULT_TEMPERATURE_THRESHOLDS.summer_good),
         temp_summer_moderate |->
            Get(temp_thresholds, "summer_moderate",
                DEFAULT_TEMPERATURE_THRESHOLDS.summer_moderate),
         temp_default_good |->
            Get(temp_thresholds, "default_good",
                DEFAULT_TEMPERATURE_THRESHOLDS.default_good),
         temp_default_moderate |->
            Get(temp_thresholds, "default_moderate",
                DEFAULT_TEMPERATURE_THRESHOLDS.default_moderate),
         humidity_good |->
            Get(humidity_thresholds, "good", DEFAULT_HUMIDITY_THRESHOLDS.good),
         humidity_moderate |->
            Get(humidity_thresholds, "moderate",
                DEFAULT_HUMIDITY_THRESHOLDS.moderate),
         co2_very_poor |->
            Get(co2_thresholds, "very_poor", DEFAULT_CO2_THRESHOLDS.very_poor),
         co2_poor |-> Get(co2_thresholds, "poor", DEFAULT_CO2_THRESHOLDS.poor),
         co2_moderate |->
            Get(co2_thresholds, "moderate", DEFAULT_CO2_THRESHOLDS.moderate),
         wind_no_effect |->
            Get(wind_thresholds, "no_effect", DEFAULT_WIND_THRESHOLDS.no_effect),
         wind_moderate_effect |->
            Get(wind_thresholds, "moderate_effect",
                DEFAULT_WIND_THRESHOLDS.moderate_effect),
         weight_temp |->
            Get(score_weights, "temperature", DEFAULT_SCORE_WEIGHTS.temperature),
         weight_humidity |->
            Get(score_weights, "humidity", DEFAULT_SCORE_WEIGHTS.humidity),
         weight_co2 |-> Get(score_weights, "co2", DEFAULT_SCORE_WEIGHTS.co2),
         weight_time |-> Get(score_weights, "time", DEFAULT_SCORE_WEIGHTS.time),
         weight_temp_with_co2 |->
            Get(score_weights, "temperature_with_co2",
                DEFAULT_SCORE_WEIGHTS.temperature_with_co2),
         weight_humidity_with_co2 |->
            Get(score_weights, "humidity_with_co2",
                DEFAULT_SCORE_WEIGHTS.humidity_with_co2),
         weight_co2_with_sensor |->
            Get(score_weights, "co2_with_sensor",
                DEFAULT_SCORE_WEIGHTS.co2_with_sensor),
         weight_time_with_co2 |->
            Get(score_weights, "time_with_co2",
                DEFAULT_SCORE_WEIGHTS.time_with_co2),
         time_high |-> Get(time_factors, "high", DEFAULT_TIME_FACTORS.high),
         time_moderate |->
            Get(time_factors, "moderate", DEFAULT_TIME_FACTORS.moderate),
         time_low |-> Get(time_factors, "low", DEFAULT_TIME_FACTORS.low),
         room_patterns |->
            Get(advanced, "room_time_patterns", DEFAULT_ROOM_TIME_PATTERNS)]

\* 6.112 * exp(17.67 T / (T + 243.5)) * 2.1674 / (273.15 + T) * 100 / 100,
\* the absolute humidity per percent of relative humidity at T degrees, in
\* 1e-5 g/m3, tabulated from the formula for the temperatures of the model
saturation_term(temp_celsius) ==
    CASE temp_celsius = 10 -> 9393
      [] temp_celsius = 15 -> 12817
      [] temp_celsius = 16 -> 13619
      [] temp_celsius = 18 -> 15354
      [] temp_celsius = 20 -> 17278
      [] temp_celsius = 22 -> 19407
      [] temp_celsius = 24 -> 21760
      [] temp_celsius = 25 -> 23026

calculate_absolute_humidity(humidity_percent, temp_celsius) ==
    humidity_percent * saturation_term(temp_celsius)

\* the comparisons of calculate_temperature_factor made non-strict
calculate_temperature_factor_ge(self, temp_diff, month) ==
    LET winter_months == Get(self.config, "winter_months", {12, 1, 2})
        summer_months == Get(self.config, "summer_months", {6, 7, 8})
    IN  IF month \in winter_months
        THEN IF temp_diff >= self.temp_winter_good THEN 8
             ELSE IF temp_diff >= self.temp_winter_moderate THEN 4 ELSE 0
        ELSE IF month \in summer_months
        THEN IF temp_diff >= self.temp_summer_good THEN 8
             ELSE IF temp_diff >= self.temp_summer_moderate THEN 3 ELSE 0
        ELSE IF temp_diff >= self.temp_default_good THEN 6
             ELSE IF temp_diff >= self.temp_default_moderate THEN 3 ELSE 0

\* the winter tiers in the wrong order: the moderate value above the good
\* threshold and the good value between the thresholds
calculate_temperature_factor_swapped(self, temp_diff, month) ==
    LET winter_months == Get(self.config, "winter_months", {12, 1, 2})
        summer_months == Get(self.config, "summer_months", {6, 7, 8})
    IN  IF month \in winter_months
        THEN IF temp_diff > self.temp_winter_good THEN 4
             ELSE IF temp_diff > self.temp_winter_moderate THEN 8 ELSE 0
        ELSE IF month \in summer_months
        THEN IF temp_diff > self.temp_summer_good THEN 8
             ELSE IF temp_diff > self.temp_summer_moderate THEN 3 ELSE 0
        ELSE IF temp_diff > self.temp_default_good THEN 6
             ELSE IF temp_diff > self.temp_default_moderate THEN 3 ELSE 0

calculate_temperature_factor(self, temp_diff, month) ==
    LET winter_months == Get(self.config, "winter_months", {12, 1, 2})
        summer_months == Get(self.config, "summer_months", {6, 7, 8})
    IN  IF month \in winter_months
        THEN IF temp_diff > self.temp_winter_good THEN 8
             ELSE IF temp_diff > self.temp_winter_moderate THEN 4 ELSE 0
        ELSE IF month \in summer_months
        THEN IF temp_diff > self.temp_summer_good THEN 8
             ELSE IF temp_diff > self.temp_summer_moderate THEN 3 ELSE 0
        ELSE IF temp_diff > self.temp_default_good THEN 6
             ELSE IF temp_diff > self.temp_default_moderate THEN 3 ELSE 0

\* the comparisons of calculate_humidity_factor made non-strict
calculate_humidity_factor_ge(self, ah_in, ah_out) ==
    LET diff == ah_in - ah_out
    IN  IF diff >= self.humidity_good * 10000 THEN 10
        ELSE IF diff >= self.humidity_moderate * 10000 THEN 5 ELSE 0

\* the thresholds are tenths of g/m3, the humidities 1e-5 g/m3
calculate_humidity_factor(self, ah_in, ah_out) ==
    LET diff == ah_in - ah_out
    IN  IF diff > self.humidity_good * 10000 THEN 10
        ELSE IF diff > self.humidity_moderate * 10000 THEN 5 ELSE 0

\* patterns[room_type] with no default: nothing for an unknown room type
room_type_pattern_no_default(room_type, hour) ==
    IF room_type = Some(ROOM_TYPE_BEDROOM)
    THEN IF hour \in {6, 7, 8, 9, 21, 22, 23} THEN 8 ELSE 2
    ELSE IF room_type = Some(ROOM_TYPE_BATHROOM)
    THEN IF hour \in {6, 7, 8, 9, 18, 19, 20, 21, 22} THEN 7 ELSE 3
    ELSE IF room_type = Some(ROOM_TYPE_OFFICE)
    THEN IF hour \in {8, 9, 10, 11, 12, 13, 14, 15, 16, 17} THEN 8 ELSE 2
    ELSE IF room_type = Some(ROOM_TYPE_KITCHEN)
    THEN IF hour \in {6, 7, 8} THEN 8
         ELSE IF hour \in {11, 12, 13, 17, 18, 19, 20} THEN 9 ELSE 3
    ELSE IF room_type = Some(ROOM_TYPE_LIVING_ROOM)
    THEN IF hour \in {6, 7, 8, 9} THEN 7
         ELSE IF hour \in {17, 18, 19, 20, 21, 22} THEN 6
         ELSE IF hour \in {10, 11, 12, 13, 14, 15, 16} THEN 3 ELSE 2
    ELSE 0

\* the dict built when no CO2 reading is present, then patterns.get(room_type, 0.2)
room_type_pattern(room_type, hour) ==
    IF room_type = Some(ROOM_TYPE_BEDROOM)
    THEN IF hour \in {6, 7, 8, 9, 21, 22, 23} THEN 8 ELSE 2
    ELSE IF room_type = Some(ROOM_TYPE_BATHROOM)
    THEN IF hour \in {6, 7, 8, 9, 18, 19, 20, 21, 22} THEN 7 ELSE 3
    ELSE IF room_type = Some(ROOM_TYPE_OFFICE)
    THEN IF hour \in {8, 9, 10, 11, 12, 13, 14, 15, 16, 17} THEN 8 ELSE 2
    ELSE IF room_type = Some(ROOM_TYPE_KITCHEN)
    THEN IF hour \in {6, 7, 8} THEN 8
         ELSE IF hour \in {11, 12, 13, 17, 18, 19, 20} THEN 9 ELSE 3
    ELSE IF room_type = Some(ROOM_TYPE_LIVING_ROOM)
    THEN IF hour \in {6, 7, 8, 9} THEN 7
         ELSE IF hour \in {17, 18, 19, 20, 21, 22} THEN 6
         ELSE IF hour \in {10, 11, 12, 13, 14, 15, 16} THEN 3 ELSE 2
    ELSE 2

\* the comparisons of the CO2 tiers made non-strict
co2_sensor_factor_ge(self, co2) ==
    IF co2 >= self.co2_very_poor THEN 10
    ELSE IF co2 >= self.co2_poor THEN 7
    ELSE IF co2 >= self.co2_moderate THEN 3
    ELSE 0

co2_sensor_factor(self, co2) ==
    IF co2 > self.co2_very_poor THEN 10
    ELSE IF co2 > self.co2_poor THEN 7
    ELSE IF co2 > self.co2_moderate THEN 3
    ELSE 0

\* the room type pattern used whenever the room type is known
calculate_co2_factor_pattern_first(self, room_type, hour, co2) ==
    IF co2 # None /\ room_type = None
    THEN co2_sensor_factor(self, Val(co2))
    ELSE room_type_pattern(room_type, hour)

calculate_co2_factor(self, room_type, hour, co2) ==
    IF co2 # None
    THEN co2_sensor_factor(self, Val(co2))
    ELSE room_type_pattern(room_type, hour)

\* the time factor read from the hour classes that __init__ loaded
calculate_time_factor_configured(hour) ==
    IF hour \in calculator.time_high THEN 8
    ELSE IF hour \in calculator.time_moderate THEN 5 ELSE 2

calculate_time_factor(hour) ==
    IF hour \in {7, 8, 9, 18, 19, 20} THEN 8
    ELSE IF hour \in {6, 10, 11, 16, 17, 21} THEN 5 ELSE 2

\* the comparisons of the wind tiers made non-strict
calculate_wind_factor_le(self, wind_speed, enable_wind) ==
    IF ~enable_wind THEN 0
    ELSE IF wind_speed <= self.wind_no_effect THEN 0
    ELSE IF wind_speed <= self.wind_moderate_effect THEN -2 ELSE -5

\* the wind tiers with the sign lost
calculate_wind_factor_positive(self, wind_speed, enable_wind) ==
    IF ~enable_wind THEN 0
    ELSE IF wind_speed < self.wind_no_effect THEN 0
    ELSE IF wind_speed < self.wind_moderate_effect THEN 2 ELSE 5

calculate_wind_factor(self, wind_speed, enable_wind) ==
    IF ~enable_wind THEN 0
    ELSE IF wind_speed < self.wind_no_effect THEN 0
    ELSE IF wind_speed < self.wind_moderate_effect THEN -2 ELSE -5

\* the five sub-factors of calculate_room_score, in tenths
sub_factors(self, rd) ==
    LET ah_in == calculate_absolute_humidity(rd.humidity_in, rd.temp_in)
        ah_out == calculate_absolute_humidity(rd.humidity_out, rd.temp_out)
        temp_diff == rd.temp_in - rd.temp_out
        enable_wind == Get(self.config, "enable_wind_factor", TRUE)
    IN  [f_t |-> calculate_temperature_factor(self, temp_diff, rd.month),
         f_rh |-> calculate_humidity_factor(self, ah_in, ah_out),
         f_co2 |-> calculate_co2_factor(self, rd.room_type, rd.hour, rd.co2),
         f_time |-> calculate_time_factor(rd.hour),
         f_w |-> calculate_wind_factor(self, rd.wind_speed, enable_wind)]

\* "if not co2" for "if co2 is None": a reading of 0 taken as absent
final_calculation_truthy(self, co2, f) ==
    IF co2 = None \/ co2 = Some(0)
    THEN self.weight_temp * f.f_t
         + self.weight_humidity * f.f_rh
         + self.weight_co2 * f.f_co2
         + self.weight_time * f.f_time
         + 100 * f.f_w
    ELSE self.weight_temp_with_co2 * f.f_t
         + self.weight_humidity_with_co2 * f.f_rh
         + self.weight_co2_with_sensor * f.f_co2
         + self.weight_time_with_co2 * f.f_time
         + 100 * f.f_w

\* the wind factor weighted like the time factor
final_calculation_weighted_wind(self, co2, f) ==
    IF co2 = None
    THEN self.weight_temp * f.f_t
         + self.weight_humidity * f.f_rh
         + self.weight_co2 * f.f_co2
         + self.weight_time * (f.f_time + f.f_w)
    ELSE self.weight_temp_with_co2 * f.f_t
         + self.weight_humidity_with_co2 * f.f_rh
         + self.weight_co2_with_sensor * f.f_co2
         + self.weight_time_with_co2 * (f.f_time + f.f_w)

\* "Final calculation": the sum before rounding, in thousandths
final_calculation(self, co2, f) ==
    IF co2 = None
    THEN self.weight_temp * f.f_t
         + self.weight_humidity * f.f_rh
         + self.weight_co2 * f.f_co2
         + self.weight_time * f.f_time
         + 100 * f.f_w
    ELSE self.weight_temp_with_co2 * f.f_t
         + self.weight_humidity_with_co2 * f.f_rh
         + self.weight_co2_with_sensor * f.f_co2
         + self.weight_time_with_co2 * f.f_time
         + 100 * f.f_w

\* round(x, 2) of x thousandths, in hundredths.  The float nearest to a sum
\* of the form k...5 thousandths lies just below or just above the decimal
\* tie, so round() goes either way there: tie_up says which.
round2(x, tie_up) ==
    LET q == x \div 10
        r == x % 10
    IN  IF r < 5 THEN q
        ELSE IF r > 5 THEN q + 1
        ELSE IF tie_up THEN q + 1 ELSE q

is_tie(x) == x % 10 = 5

calculate_room_score(self, rd, tie_up) ==
    round2(final_calculation(self, rd.co2, sub_factors(self, rd)), tie_up)


----------------------------------------------------------------------------
(* sensor.py: the score thresholds and the advice *)

SCORE_GOOD == 50
SCORE_MODERATE == 0
SCORE_POOR == -30

\* the tiers of the advice with the boundary scores in the lower tier
get_ventilation_advice_gt(native_value) ==
    IF native_value = None THEN "Unable to calculate ventilation advice"
    ELSE LET score == Val(native_value)
         IN  IF score > SCORE_GOOD
             THEN "Good ventilation - no action needed"
             ELSE IF score > SCORE_MODERATE
             THEN "Moderate ventilation - consider opening windows briefly"
             ELSE IF score > SCORE_POOR
             THEN "Poor ventilation - open windows for 10-15 minutes"
             ELSE "Very poor ventilation - ventilate immediately for 20+ minutes"

\* VentilationSensor._get_ventilation_advice, native_value an optional score
get_ventilation_advice(native_value) ==
    IF native_value = None THEN "Unable to calculate ventilation advice"
    ELSE LET score == Val(native_value)
         IN  IF score >= SCORE_GOOD
             THEN "Good ventilation - no action needed"
             ELSE IF score >= SCORE_MODERATE
             THEN "Moderate ventilation - consider opening windows briefly"
             ELSE IF score >= SCORE_POOR
             THEN "Poor ventilation - open windows for 10-15 minutes"
             ELSE "Very poor ventilation - ventilate immediately for 20+ minutes"

----------------------------------------------------------------------------
(* sensor.py: the coordinator and the sensor *)

ICON_VENTILATION == "mdi:fan"
ICON_VENTILATION_GOOD == "mdi:fan-plus"
ICON_VENTILATION_MODERATE == "mdi:fan-clock"
ICON_VENTILATION_POOR == "mdi:fan-alert"

\* dict.get(key): the value, or None
GetOpt(d, key) == IF key \in DOMAIN d THEN Some(d[key]) ELSE None

\* a or b, of two optional values
Or(a, b) == IF a # None THEN a ELSE b

\* float(state.state) on the state strings of the model; None is ValueError
float_of(state) ==
    CASE state = "0" -> Some(0)
      [] state = "5" -> Some(5)
      [] state = "-5" -> Some(-5)
      [] state = " 20 " -> Some(20)    \* float() strips white space
      [] state = "1e1" -> Some(10)     \* and reads an exponent
      [] state = "21" -> Some(21)
      [] state = "70" -> Some(70)
      [] state = "800" -> Some(800)
      [] state = "10" -> Some(10)
      [] state = "16" -> Some(16)
      [] state = "20" -> Some(20)
      [] state = "25" -> Some(25)
      [] state = "50" -> Some(50)
      [] state = "60" -> Some(60)
      [] state = "1300" -> Some(1300)
      [] OTHER -> None

\* VentilationDataUpdateCoordinator._get_sensor_value; states maps the
\* entities that exist to their state strings
\* "except ValueError: return 0.0" for "return None"
get_sensor_value_zero_default(states, entity_id) ==
    IF entity_id = None \/ entity_id = Some("") THEN None
    ELSE LET state == GetOpt(states, Val(entity_id))
         IN  IF state # None /\ Val(state) \notin {"unknown", "unavailable"}
             THEN IF float_of(Val(state)) = None THEN Some(0)
                  ELSE float_of(Val(state))
             ELSE None

get_sensor_value(states, entity_id) ==
    IF entity_id = None \/ entity_id = Some("") THEN None
    ELSE LET state == GetOpt(states, Val(entity_id))
         IN  IF state # None /\ Val(state) \notin {"unknown", "unavailable"}
             THEN float_of(Val(state))
             ELSE None

\* _async_update_data with the enabled flag of the options ignored
async_update_data_config_enabled(e, states) ==
    LET outdoor_temp_entity ==
            Or(GetOpt(e.options, "outdoor_temp_sensor"),
               GetOpt(e.data, "outdoor_temp_sensor"))
        outdoor_humidity_entity ==
            Or(GetOpt(e.options, "outdoor_humidity_sensor"),
               GetOpt(e.data, "outdoor_humidity_sensor"))
        wind_entity ==
            Or(GetOpt(e.options, "wind_sensor"), GetOpt(e.data, "wind_sensor"))
        rooms_data == Get(e.data, "rooms", EmptyDict)
        room_options == Get(e.options, "room_settings", EmptyDict)
        room_settings(room_name) == Get(room_options, room_name, EmptyDict)
        room_enabled(room_name) == Get(rooms_data[room_name], "enabled", TRUE)
        setting(room_name, key) ==
            Or(GetOpt(room_settings(room_name), key),
               GetOpt(rooms_data[room_name], key))
    IN  [outdoor_temp |-> get_sensor_value(states, outdoor_temp_entity),
         outdoor_humidity |-> get_sensor_value(states, outdoor_humidity_entity),
         wind_speed |-> get_sensor_value(states, wind_entity),
         rooms |->
            [room_name \in {r \in DOMAIN rooms_data : room_enabled(r)} |->
                [indoor_temp |->
                    get_sensor_value(states, setting(room_name, "temp_sensor")),
                 indoor_humidity |->
                    get_sensor_value(states,
                                     setting(room_name, "humidity_sensor")),
                 co2_level |->
                    IF setting(room_name, "co2_sensor") # None
                    THEN get_sensor_value(states,
                                          setting(room_name, "co2_sensor"))
                    ELSE None,
                 room_type |-> setting(room_name, "room_type")]]]

\* VentilationDataUpdateCoordinator._async_update_data
async_update_data(e, states) ==
    LET outdoor_temp_entity ==
            Or(GetOpt(e.options, "outdoor_temp_sensor"),
               GetOpt(e.data, "outdoor_temp_sensor"))
        outdoor_humidity_entity ==
            Or(GetOpt(e.options, "outdoor_humidity_sensor"),
               GetOpt(e.data, "outdoor_humidity_sensor"))
        wind_entity ==
            Or(GetOpt(e.options, "wind_sensor"), GetOpt(e.data, "wind_sensor"))
        rooms_data == Get(e.data, "rooms", EmptyDict)
        room_options == Get(e.options, "room_settings", EmptyDict)
        room_settings(room_name) == Get(room_options, room_name, EmptyDict)
        room_enabled(room_name) ==
            Get(room_settings(room_name), "enabled",
                Get(rooms_data[room_name], "enabled", TRUE))
        setting(room_name, key) ==
            Or(GetOpt(room_settings(room_name), key),
               GetOpt(rooms_data[room_name], key))
    IN  [outdoor_temp |-> get_sensor_value(states, outdoor_temp_entity),
         outdoor_humidity |-> get_sensor_value(states, outdoor_humidity_entity),
         wind_speed |-> get_sensor_value(states, wind_entity),
         rooms |->
            [room_name \in {r \in DOMAIN rooms_data : room_enabled(r)} |->
                [indoor_temp |->
                    get_sensor_value(states, setting(room_name, "temp_sensor")),
                 indoor_humidity |->
                    get_sensor_value(states,
                                     setting(room_name, "humidity_sensor")),
                 co2_level |->
                    IF setting(room_name, "co2_sensor") # None
                    THEN get_sensor_value(states,
                                          setting(room_name, "co2_sensor"))
                    ELSE None,
                 room_type |-> setting(room_name, "room_type")]]]

\* VentilationSensor.__init__
VentilationSensor(room_name, room_config) ==
    [room_name |-> room_name,
     room_config |-> room_config,
     icon |-> ICON_VENTILATION,
     extra_state_attributes |-> EmptyDict,
     cached |-> FALSE,          \* cached_property: native_value in __dict__
     native_value |-> None]

\* the RoomData that native_value builds, or None when it returns before;
\* the readings are kept optional, as the coordinator stored them
RoomDataOf(self, coordinator_data, clock) ==
    IF coordinator_data = None THEN None
    ELSE LET d == Val(coordinator_data)
             room == GetOpt(Get(d, "rooms", EmptyDict), self.room_name)
             temp_out == Get(d, "outdoor_temp", None)
             humidity_out == Get(d, "outdoor_humidity", None)
             wind_speed == Get(d, "wind_speed", None)
         IN  IF DOMAIN d = {} THEN None          \* "if not self.coordinator.data"
             ELSE IF room = None THEN None
             ELSE IF \/ temp_out = None
                     \/ humidity_out = None
                     \/ wind_speed = None
             THEN None
             ELSE Some([temp_in |-> Val(room).indoor_temp,
                        humidity_in |-> Val(room).indoor_humidity,
                        temp_out |-> temp_out,
                        humidity_out |-> humidity_out,
                        wind_speed |-> wind_speed,
                        hour |-> clock.hour,
                        month |-> clock.month,
                        room_type |-> Val(room).room_type,
                        co2 |-> Val(room).co2_level])

\* calculate_room_score on a RoomData with a reading of None: the arithmetic
\* of _calculate_absolute_humidity raises TypeError
raises_type_error(rd) ==
    \/ rd.temp_in = None
    \/ rd.humidity_in = None
    \/ rd.temp_out = None
    \/ rd.humidity_out = None

\* the exception that calculate_room_score raises on the RoomData, if any
room_score_exception(rd) ==
    IF raises_type_error(rd) THEN Some("TypeError") ELSE None

\* "except ValueError:" for "except (ValueError, TypeError):"
caught_exceptions_value_error == {"ValueError"}

\* the except clause of native_value
caught_exceptions == {"ValueError", "TypeError"}

\* whether an evaluation of native_value ends with an exception that the
\* caller sees
native_value_propagates(built) ==
    /\ built # None
    /\ room_score_exception(Val(built)) # None
    /\ Val(room_score_exception(Val(built))) \notin caught_exceptions

\* the readings of a complete RoomData as numbers
Readings(rd) ==
    [rd EXCEPT !.temp_in = Val(@), !.humidity_in = Val(@),
               !.temp_out = Val(@), !.humidity_out = Val(@),
               !.wind_speed = Val(@)]

\* the body of native_value: the score or None
native_value(self, coordinator_data, clock, calc, tie_up) ==
    LET built == RoomDataOf(self, coordinator_data, clock)
    IN  IF built = None THEN None
        ELSE IF raises_type_error(Val(built)) THEN None
        ELSE LET score == calculate_room_score(calc, Readings(Val(built)), tie_up)
             IN  Some(round2(10 * score, FALSE))

\* whether an evaluation of native_value rounds a decimal tie
native_value_tie(self, coordinator_data, clock, calc) ==
    LET built == RoomDataOf(self, coordinator_data, clock)
    IN  /\ built # None
        /\ ~raises_type_error(Val(built))
        /\ LET rd == Readings(Val(built))
           IN  is_tie(final_calculation(calc, rd.co2, sub_factors(calc, rd)))

\* reading self.native_value: computed on the first access, then the
\* cached value
read_native_value(self, coordinator_data, clock, calc, tie_up) ==
    IF self.cached THEN self
    ELSE [self EXCEPT
             !.cached = TRUE,
             !.native_value =
                 native_value(self, coordinator_data, clock, calc, tie_up)]

\* the comparisons of update_icon made strict
update_icon_gt(self) ==
    IF self.native_value = None
    THEN [self EXCEPT !.icon = ICON_VENTILATION]
    ELSE LET score == Val(self.native_value)
         IN  IF score > SCORE_GOOD
             THEN [self EXCEPT !.icon = ICON_VENTILATION_GOOD]
             ELSE IF score > SCORE_MODERATE
             THEN [self EXCEPT !.icon = ICON_VENTILATION_MODERATE]
             ELSE [self EXCEPT !.icon = ICON_VENTILATION_POOR]

\* VentilationSensor._update_icon, native_value already read
update_icon(self) ==
    IF self.native_value = None
    THEN [self EXCEPT !.icon = ICON_VENTILATION]
    ELSE LET score == Val(self.native_value)
         IN  IF score >= SCORE_GOOD
             THEN [self EXCEPT !.icon = ICON_VENTILATION_GOOD]
             ELSE IF score >= SCORE_MODERATE
             THEN [self EXCEPT !.icon = ICON_VENTILATION_MODERATE]
             ELSE [self EXCEPT !.icon = ICON_VENTILATION_POOR]

\* the entries of d whose value is not None
Present(d) == [k \in {k \in DOMAIN d : d[k] # None} |-> d[k]]

\* dict a updated with dict b
Update(a, b) ==
    [k \in DOMAIN a \cup DOMAIN b |-> IF k \in DOMAIN b THEN b[k] ELSE a[k]]

\* VentilationSensor._update_extra_state_attributes, native_value already read
update_extra_state_attributes(self, coordinator_data) ==
    IF coordinator_data = None
    THEN [self EXCEPT !.extra_state_attributes = EmptyDict]
    ELSE LET d == Val(coordinator_data)
             room == GetOpt(Get(d, "rooms", EmptyDict), self.room_name)
         IN  IF DOMAIN d = {} \/ room = None
             THEN [self EXCEPT !.extra_state_attributes = EmptyDict]
             ELSE [self EXCEPT !.extra_state_attributes =
                      Update(
                          [room_type |-> GetOpt(self.room_config, "room_type"),
                           ventilation_score |-> self.native_value,
                           ventilation_advice |->
                               {get_ventilation_advice(self.native_value)}],
                          Present([temperature_indoor |-> Val(room).indoor_temp,
                                   humidity_indoor |-> Val(room).indoor_humidity,
                                   co2_level |-> Val(room).co2_level,
                                   temperature_outdoor |->
                                       Get(d, "outdoor_temp", None),
                                   humidity_outdoor |->
                                       Get(d, "outdoor_humidity", None),
                                   wind_speed |-> Get(d, "wind_speed", None)]))]

\* VentilationSensor._handle_coordinator_update
handle_coordinator_update(self, coordinator_data, clock, calc, tie_up) ==
    update_extra_state_attributes(
        update_icon(read_native_value(self, coordinator_data, clock, calc, tie_up)),
        coordinator_data)

----------------------------------------------------------------------------
(* The configurations and readings of the model *)

MaxTempDiff == 5
MaxWindSpeed == 30
MaxAbsScore == 120

Hours == 0 .. 23
Months == 1 .. 12

\* a room type of the integration, one it does not know, or none at all
RoomTypeInputs == {None} \cup {Some(t) : t \in ROOM_TYPES \cup {"garage"}}

\* a night worker's bedroom: occupied 12..14 and otherwise empty
NightShiftPatterns ==
    [DEFAULT_ROOM_TIME_PATTERNS EXCEPT
        !.bedroom = [high |-> {12, 13, 14}, moderate |-> {},
                     low |-> Hours \ {12, 13, 14}]]

\* the shifted time-of-day classes of the same household
NightShiftTimeFactors ==
    [high |-> {12, 13, 14}, moderate |-> {}, low |-> Hours \ {12, 13, 14}]

Configs ==
    { EmptyDict,
      [enable_wind_factor |-> FALSE,
       winter_months |-> {11, 12, 1, 2, 6}, summer_months |-> {5, 6, 7}],
      [advanced_settings |->
          [temperature_thresholds |->
               [winter_good |-> 4, winter_moderate |-> 2, default_good |-> 0,
                summer_good |-> -1],
           humidity_thresholds |-> [good |-> 20],
           co2_thresholds |-> [very_poor |-> 1000, poor |-> 900],
           wind_thresholds |-> [no_effect |-> 10, moderate_effect |-> 15],
           score_weights |->
               [temperature |-> 50, humidity |-> 30, co2 |-> 15, time |-> 5,
                temperature_with_co2 |-> 10, humidity_with_co2 |-> 10,
                co2_with_sensor |-> 70, time_with_co2 |-> 10]]],
      [advanced_settings |->
          [room_time_patterns |-> NightShiftPatterns,
           time_factors |-> NightShiftTimeFactors]] }

\* calculate_room_score is run on every hour and month under the default
\* configuration, and on these under the others
SampleHours == {3, 6, 8, 12, 19, 22}
SampleMonths == {1, 4, 6, 7, 11}
ScoreHours(cfg) == IF cfg = EmptyDict THEN Hours ELSE SampleHours
ScoreMonths(cfg) == IF cfg = EmptyDict THEN Months ELSE SampleMonths

TempInputs == {<<20, 16>>, <<20, 18>>, <<20, 20>>, <<20, 22>>}
HumidityInputs == {<<50, 50>>, <<60, 50>>, <<50, 70>>}
WindInputs == {10, 15, 25}
Co2Inputs == {None, Some(0), Some(900), Some(1100), Some(1300)}
Co2Levels ==
    {0, 799, 800, 801, 899, 900, 901, 999, 1000, 1001, 1199, 1200, 1201, 1300}

\* absolute humidities in 1e-5 g/m3: the outdoor one, and the differences
\* around the thresholds 0, 1.0 and 2.0 g/m3
AhOutInputs == {800000, 1200000}
AhDiffInputs ==
    {-100000, -1, 0, 1, 50000, 99999, 100000, 100001, 150000, 199999, 200000,
     200001, 300000}

RoomData(temp, hum, wind_speed, hour, month, room_type, co2) ==
    [temp_in |-> temp[1], humidity_in |-> hum[1],
     temp_out |-> temp[2], humidity_out |-> hum[2],
     wind_speed |-> wind_speed, hour |-> hour, month |-> month,
     room_type |-> room_type, co2 |-> co2]

----------------------------------------------------------------------------
(* The calculator called on its own: one call at a time, then the return *)

Idle == result = None

CalculateRoomScore ==
    /\ Idle
    /\ \E temp \in TempInputs, hum \in HumidityInputs, wind_speed \in WindInputs,
          hour \in ScoreHours(calculator.config),
          month \in ScoreMonths(calculator.config),
          room_type \in RoomTypeInputs, co2 \in Co2Inputs, tie_up \in BOOLEAN :
          LET self == calculator
              rd == RoomData(temp, hum, wind_speed, hour, month, room_type, co2)
              f == sub_factors(self, rd)
              unrounded == final_calculation(self, rd.co2, f)
          IN  /\ tie_up => is_tie(unrounded)
              /\ room_data' = Some(rd)
              /\ result' = Some([op |-> "calculate_room_score", f |-> f,
                                 unrounded |-> unrounded,
                                 score |-> calculate_room_score(self, rd, tie_up)])
    /\ UNCHANGED <<calculator, sensor_vars, flows, config_entries>>

TemperatureFactor ==
    /\ Idle
    /\ \E temp_diff \in -MaxTempDiff .. MaxTempDiff, month \in Months :
          /\ room_data' = Some([temp_diff |-> temp_diff, month |-> month])
          /\ result' = Some([op |-> "calculate_temperature_factor",
                             value |-> calculate_temperature_factor(
                                 calculator, temp_diff, month)])
    /\ UNCHANGED <<calculator, sensor_vars, flows, config_entries>>

Co2Factor ==
    /\ Idle
    /\ \E room_type \in RoomTypeInputs, hour \in Hours,
          co2 \in {None} \cup {Some(c) : c \in Co2Levels} :
          /\ room_data' = Some([room_type |-> room_type, hour |-> hour,
                                co2 |-> co2])
          /\ result' = Some([op |-> "calculate_co2_factor",
                             value |-> calculate_co2_factor(
                                 calculator, room_type, hour, co2)])
    /\ UNCHANGED <<calculator, sensor_vars, flows, config_entries>>

HumidityFactor ==
    /\ Idle
    /\ \E ah_out \in AhOutInputs, diff \in AhDiffInputs :
          /\ room_data' = Some([ah_in |-> ah_out + diff, ah_out |-> ah_out])
          /\ result' = Some([op |-> "calculate_humidity_factor",
                             value |-> calculate_humidity_factor(
                                 calculator, ah_out + diff, ah_out)])
    /\ UNCHANGED <<calculator, sensor_vars, flows, config_entries>>

TimeFactor ==
    /\ Idle
    /\ \E hour \in Hours :
          /\ room_data' = Some([hour |-> hour])
          /\ result' = Some([op |-> "calculate_time_factor",
                             value |-> calculate_time_factor(hour)])
    /\ UNCHANGED <<calculator, sensor_vars, flows, config_entries>>

WindFactor ==
    /\ Idle
    /\ \E wind_speed \in 0 .. MaxWindSpeed, enable_wind \in BOOLEAN :
          /\ room_data' = Some([wind_speed |-> wind_speed,
                                enable_wind |-> enable_wind])
          /\ result' = Some([op |-> "calculate_wind_factor",
                             value |-> calculate_wind_factor(
                                 calculator, wind_speed, enable_wind)])
    /\ UNCHANGED <<calculator, sensor_vars, flows, config_entries>>

VentilationAdvice ==
    /\ Idle
    /\ \E score \in -MaxAbsScore .. MaxAbsScore :
          /\ room_data' = Some([native_value |-> Some(score)])
          /\ result' = Some([op |-> "get_ventilation_advice",
                             value |-> get_ventilation_advice(Some(score))])
    /\ UNCHANGED <<calculator, sensor_vars, flows, config_entries>>

\* _update_icon on a sensor whose native_value is the given one, as
\* test_icon_update calls it, and the advice for the same value
UpdateIcon ==
    /\ Idle
    /\ \E value \in
              {None} \cup {Some(score) : score \in -MaxAbsScore .. MaxAbsScore} :
          LET self == [VentilationSensor("Test Room", EmptyDict) EXCEPT
                          !.cached = TRUE, !.native_value = value]
          IN  /\ room_data' = Some([native_value |-> value])
              /\ result' = Some([op |-> "update_icon",
                                 icon |-> update_icon(self).icon,
                                 advice |-> get_ventilation_advice(
                                                self.native_value)])
    /\ UNCHANGED <<calculator, sensor_vars, flows, config_entries>>

Return ==
    /\ ~Idle
    /\ room_data' = None
    /\ result' = None
    /\ UNCHANGED <<calculator, sensor_vars, flows, config_entries>>

SensorIdle ==
    /\ entry = None
    /\ hass_states = None
    /\ now = None
    /\ data = None
    /\ sensor = None

Init ==
    /\ calculator \in {VentilationCalculator(cfg) : cfg \in Configs}
    /\ room_data = None
    /\ result = None
    /\ SensorIdle
    /\ flows = None
    /\ config_entries = None

Next ==
    \/ CalculateRoomScore
    \/ TemperatureFactor
    \/ Co2Factor
    \/ HumidityFactor
    \/ TimeFactor
    \/ WindFactor
    \/ VentilationAdvice
    \/ UpdateIcon
    \/ Return

Spec == Init /\ [][Next]_vars

----------------------------------------------------------------------------
(* The sensor platform of one config entry with one room *)

ROOM == "Living Room"

RoomConfigs ==
    { [temp_sensor |-> "sensor.temp", humidity_sensor |-> "sensor.humidity",
       co2_sensor |-> "sensor.co2", room_type |-> "living_room",
       enabled |-> TRUE],
      [temp_sensor |-> "sensor.temp", humidity_sensor |-> "sensor.humidity",
       room_type |-> "office"] }

Entries ==
    { [data |-> [outdoor_temp_sensor |-> "sensor.outdoor_temp",
                 outdoor_humidity_sensor |-> "sensor.outdoor_humidity",
                 wind_sensor |-> "sensor.wind",
                 rooms |-> (ROOM :> room_config)],
       options |-> EmptyDict] : room_config \in RoomConfigs }

\* hass.states: the state string of every entity that exists
States(outdoor_temp, outdoor_humidity, wind, temp, humidity, co2) ==
    LET all == [e \in {"sensor.outdoor_temp", "sensor.outdoor_humidity",
                       "sensor.wind", "sensor.temp", "sensor.humidity",
                       "sensor.co2"} |->
                    CASE e = "sensor.outdoor_temp" -> outdoor_temp
                      [] e = "sensor.outdoor_humidity" -> outdoor_humidity
                      [] e = "sensor.wind" -> wind
                      [] e = "sensor.temp" -> temp
                      [] e = "sensor.humidity" -> humidity
                      [] e = "sensor.co2" -> co2]
    IN  [e \in {e \in DOMAIN all : all[e] # None} |-> Val(all[e])]

OutdoorTempStates == {Some("16"), Some("unavailable")}
OutdoorHumidityStates == {Some("50"), Some("unknown")}
WindStates == {Some("10"), Some("25"), None}
TempStates == {Some("20"), Some("not_a_number")}
HumidityStates == {Some("60"), Some("unavailable")}
Co2States == {Some("1300"), Some("unknown")}

Clocks == {[hour |-> 8, month |-> 1], [hour |-> 14, month |-> 7]}

\* the calculator call that an access to self.native_value makes, if any
ScorerCall(self, coordinator_data, clock) ==
    IF self.cached THEN None ELSE RoomDataOf(self, coordinator_data, clock)

\* the calculator variables after an access to self.native_value
Access(self, coordinator_data, clock, tie_up) ==
    LET call == ScorerCall(self, coordinator_data, clock)
    IN  /\ tie_up =>
            /\ ~self.cached
            /\ native_value_tie(self, coordinator_data, clock, calculator)
        /\ now' = IF self.cached THEN now ELSE Some(clock)
        /\ room_data' = IF call = None THEN room_data ELSE call
        /\ result' =
               IF call = None THEN result
               ELSE Some([op |-> "calculate_room_score",
                          raised |-> raises_type_error(Val(call)),
                          value |-> native_value(self, coordinator_data, clock,
                                                 calculator, tie_up)])

\* async_setup_entry, the coordinator constructed: its first refresh, then
\* the sensors of the enabled rooms
SetupEntry ==
    /\ data = None
    /\ \E outdoor_temp \in OutdoorTempStates,
          outdoor_humidity \in OutdoorHumidityStates, wind \in WindStates,
          temp \in TempStates, humidity \in HumidityStates, co2 \in Co2States :
          LET states == States(outdoor_temp, outdoor_humidity, wind, temp,
                               humidity, co2)
              room_config == Val(entry).data.rooms[ROOM]
          IN  /\ hass_states' = Some(states)
              /\ data' = Some(async_update_data(Val(entry), states))
              /\ sensor' = IF Get(room_config, "enabled", TRUE)
                           THEN Some(VentilationSensor(ROOM, room_config))
                           ELSE None
    /\ UNCHANGED <<calculator, entry, now, room_data, result,
                   flows, config_entries>>

\* the state machine writes the entity's state: it reads native_value
WriteState ==
    /\ sensor # None
    /\ ~Val(sensor).cached
    /\ \E clock \in Clocks, tie_up \in BOOLEAN :
          /\ Access(Val(sensor), data, clock, tie_up)
          /\ sensor' = Some(read_native_value(Val(sensor), data, clock,
                                              calculator, tie_up))
    /\ UNCHANGED <<calculator, entry, hass_states, data, flows, config_entries>>

\* a refresh of the coordinator: _async_update_data, then the listeners'
\* _handle_coordinator_update
AsyncRefresh ==
    /\ sensor # None
    /\ \E outdoor_temp \in OutdoorTempStates,
          outdoor_humidity \in OutdoorHumidityStates, wind \in WindStates,
          temp \in TempStates, humidity \in HumidityStates, co2 \in Co2States,
          clock \in Clocks, tie_up \in BOOLEAN :
          LET states == States(outdoor_temp, outdoor_humidity, wind, temp,
                               humidity, co2)
              updated == Some(async_update_data(Val(entry), states))
          IN  /\ hass_states' = Some(states)
              /\ data' = updated
              /\ Val(sensor).cached => clock = [hour |-> 8, month |-> 1]
              /\ Access(Val(sensor), updated, clock, tie_up)
              /\ sensor' = Some(handle_coordinator_update(
                                    Val(sensor), updated, clock, calculator,
                                    tie_up))
    /\ UNCHANGED <<calculator, entry, flows, config_entries>>

\* VentilationDataUpdateCoordinator.__init__: the calculator of the
\* coordinator is VentilationCalculator({})
InitSensor ==
    /\ calculator = VentilationCalculator(EmptyDict)
    /\ room_data = None
    /\ result = None
    /\ entry \in {Some(e) : e \in Entries}
    /\ hass_states = None
    /\ now = None
    /\ data = None
    /\ sensor = None
    /\ flows = None
    /\ config_entries = None

NextSensor ==
    \/ SetupEntry
    \/ WriteState
    \/ AsyncRefresh

SpecSensor == InitSensor /\ [][NextSensor]_vars

----------------------------------------------------------------------------
(* The sensor over coordinator data assigned directly, as the tests of    *)
(* test_sensor.py drive it: coordinator.data = ..., then the sensor       *)

\* the data of test_sensor_state_and_attributes
ScenarioData ==
    [outdoor_temp |-> Some(10), outdoor_humidity |-> Some(70),
     wind_speed |-> Some(5),
     rooms |-> (ROOM :> [indoor_temp |-> Some(20), indoor_humidity |-> Some(60),
                         co2_level |-> Some(800),
                         room_type |-> Some("living_room")])]

\* that data with any of its readings absent, with no entry for the room,
\* the empty dict, and no data at all
UnitData ==
    {None, Some(EmptyDict)} \cup
    { Some([outdoor_temp |-> outdoor_temp, outdoor_humidity |-> outdoor_humidity,
            wind_speed |-> wind_speed, rooms |-> rooms]) :
        outdoor_temp \in {None, Some(10)},
        outdoor_humidity \in {None, Some(70)},
        wind_speed \in {None, Some(5)},
        rooms \in {EmptyDict} \cup
            { (ROOM :> [indoor_temp |-> indoor_temp,
                        indoor_humidity |-> indoor_humidity,
                        co2_level |-> co2_level,
                        room_type |-> Some("living_room")]) :
                indoor_temp \in {None, Some(20)},
                indoor_humidity \in {None, Some(60)},
                co2_level \in {None, Some(800)} } }

\* datetime.now(UTC): every hour and month on the data of the scenario
UnitClocks(coordinator_data) ==
    IF coordinator_data = Some(ScenarioData)
    THEN {[hour |-> hour, month |-> month] : hour \in Hours, month \in Months}
    ELSE Clocks

\* the calculator variables after an access to self.native_value: the
\* evaluation of its body on the first access, nothing afterwards
Evaluate(self, coordinator_data, clock, tie_up) ==
    LET built == RoomDataOf(self, coordinator_data, clock)
    IN  /\ tie_up =>
            /\ ~self.cached
            /\ native_value_tie(self, coordinator_data, clock, calculator)
        /\ self.cached => clock \in Clocks
        /\ now' = IF self.cached THEN now ELSE Some(clock)
        /\ room_data' = IF self.cached THEN room_data ELSE built
        /\ result' =
               IF self.cached THEN result
               ELSE Some([op |-> "native_value",
                          coordinator_data |-> coordinator_data,
                          propagated |-> native_value_propagates(built),
                          value |-> native_value(self, coordinator_data, clock,
                                                 calculator, tie_up)])

\* sensor.native_value read
ReadNativeValue ==
    /\ \E clock \in UnitClocks(data), tie_up \in BOOLEAN :
          /\ Evaluate(Val(sensor), data, clock, tie_up)
          /\ sensor' = Some(read_native_value(Val(sensor), data, clock,
                                              calculator, tie_up))
    /\ UNCHANGED <<calculator, entry, hass_states, data, flows, config_entries>>

\* sensor._handle_coordinator_update()
HandleCoordinatorUpdate ==
    /\ \E clock \in UnitClocks(data), tie_up \in BOOLEAN :
          /\ Evaluate(Val(sensor), data, clock, tie_up)
          /\ sensor' = Some(handle_coordinator_update(
                                Val(sensor), data, clock, calculator, tie_up))
    /\ UNCHANGED <<calculator, entry, hass_states, data, flows, config_entries>>

InitUnit ==
    /\ calculator = VentilationCalculator(EmptyDict)
    /\ room_data = None
    /\ result = None
    /\ entry = None
    /\ hass_states = None
    /\ now = None
    /\ data \in UnitData
    /\ sensor = Some(VentilationSensor(ROOM, [room_type |-> "living_room"]))
    /\ flows = None
    /\ config_entries = None

NextUnit ==
    \/ ReadNativeValue
    \/ HandleCoordinatorUpdate

SpecUnit == InitUnit /\ [][NextUnit]_vars

----------------------------------------------------------------------------
(* The coordinator reading entities of the state machine, as              *)
(* test_get_sensor_value drives it: hass.states.async_set, then           *)
(* _get_sensor_value                                                      *)

ReadEntities == {"sensor.test", "sensor.other"}

StateStrings ==
    {"21", "-5", " 20 ", "1e1", "unknown", "unavailable", "not_a_number", ""}

EntityIds == {None, Some(""), Some("sensor.missing")}
                 \cup {Some(e) : e \in ReadEntities}

\* hass.states.async_set(entity_id, state)
StateSet ==
    /\ Idle
    /\ \E e \in ReadEntities, state \in StateStrings :
          hass_states' = Some(Put(Val(hass_states), e, state))
    /\ UNCHANGED <<calculator, room_data, result, entry, now, data, sensor,
                   flows, config_entries>>

\* hass.states.async_remove(entity_id)
StateRemoved ==
    /\ Idle
    /\ \E e \in DOMAIN Val(hass_states) :
          hass_states' =
              Some([k \in DOMAIN Val(hass_states) \ {e} |-> Val(hass_states)[k]])
    /\ UNCHANGED <<calculator, room_data, result, entry, now, data, sensor,
                   flows, config_entries>>

GetSensorValue ==
    /\ Idle
    /\ \E entity_id \in EntityIds :
          /\ room_data' = Some([entity_id |-> entity_id])
          /\ result' = Some([op |-> "get_sensor_value",
                             value |-> get_sensor_value(Val(hass_states),
                                                        entity_id)])
    /\ UNCHANGED <<calculator, entry, hass_states, now, data, sensor,
                   flows, config_entries>>

ReturnReading ==
    /\ ~Idle
    /\ room_data' = None
    /\ result' = None
    /\ UNCHANGED <<calculator, entry, hass_states, now, data, sensor,
                   flows, config_entries>>

InitReading ==
    /\ calculator = VentilationCalculator(EmptyDict)
    /\ room_data = None
    /\ result = None
    /\ entry = None
    /\ hass_states = Some(EmptyDict)
    /\ now = None
    /\ data = None
    /\ sensor = None
    /\ flows = None
    /\ config_entries = None

NextReading ==
    \/ StateSet
    \/ StateRemoved
    \/ GetSensorValue
    \/ ReturnReading

SpecReading == InitReading /\ [][NextReading]_vars

----------------------------------------------------------------------------
(* The sensor platform set up for an entry with several rooms, enabled or *)
(* disabled in the room's configuration and in the options, as            *)
(* test_async_setup_entry_with_rooms and test_async_update_data_success   *)
(* drive it                                                               *)

\* the entities of async_setup_entry: a sensor for every room of entry.data
\* whose configuration does not disable it
setup_entities(e) ==
    LET rooms_data == Get(e.data, "rooms", EmptyDict)
    IN  { VentilationSensor(room_name, rooms_data[room_name]) :
            room_name \in { r \in DOMAIN rooms_data :
                              Get(rooms_data[r], "enabled", TRUE) } }

\* async_setup_entry: the calls of async_add_entities that it makes, each
\* with the entities passed and its update_before_add keyword (False, the
\* default of the callback, when the keyword is not given)
async_setup_entry(e) ==
    [add_entities_calls |->
        << [entities |-> setup_entities(e), update_before_add |-> FALSE] >>]

PlatformRooms == {"Living Room", "Office"}

\* a room's configuration: enabled, disabled, or without the flag
PlatformRoomConfigs ==
    LET room_config == [temp_sensor |-> "sensor.temp",
                        humidity_sensor |-> "sensor.humidity",
                        room_type |-> "office"]
    IN  {room_config} \cup {Put(room_config, "enabled", b) : b \in BOOLEAN}

\* a room's settings in the options: enabled, disabled, or without the flag
PlatformRoomSettings ==
    {[room_type |-> "office"]} \cup {[enabled |-> b] : b \in BOOLEAN}

\* dicts over some of the keys
Dicts(keys, values) == UNION {[ks -> values] : ks \in SUBSET keys}

PlatformEntries ==
    { [data |-> [outdoor_temp_sensor |-> "sensor.outdoor_temp",
                 outdoor_humidity_sensor |-> "sensor.outdoor_humidity",
                 wind_sensor |-> "sensor.wind",
                 rooms |-> rooms],
       options |-> IF DOMAIN room_settings = {} THEN EmptyDict
                   ELSE [room_settings |-> room_settings]] :
        rooms \in Dicts(PlatformRooms, PlatformRoomConfigs),
        room_settings \in Dicts(PlatformRooms, PlatformRoomSettings) }

\* hass.states at a refresh: the indoor temperature is a number or not
PlatformStates ==
    { States(Some("16"), Some("50"), Some("10"), temp, Some("60"), None) :
        temp \in TempStates }

\* async_setup_entry: the first refresh of the coordinator, then
\* async_add_entities
SetupPlatform ==
    /\ Idle
    /\ data = None
    /\ \E states \in PlatformStates :
          /\ hass_states' = Some(states)
          /\ data' = Some(async_update_data(Val(entry), states))
          /\ room_data' = Some([entry |-> Val(entry)])
          /\ result' = Some([op |-> "async_setup_entry"]
                            @@ async_setup_entry(Val(entry)))
    /\ UNCHANGED <<calculator, entry, now, sensor, flows, config_entries>>

\* a refresh of the coordinator: _async_update_data
UpdateData ==
    /\ Idle
    /\ data # None
    /\ \E states \in PlatformStates :
          /\ hass_states' = Some(states)
          /\ data' = Some(async_update_data(Val(entry), states))
          /\ room_data' = Some([entry |-> Val(entry)])
          /\ result' = Some([op |-> "async_update_data",
                             value |-> async_update_data(Val(entry), states)])
    /\ UNCHANGED <<calculator, entry, now, sensor, flows, config_entries>>

ReturnPlatform ==
    /\ ~Idle
    /\ room_data' = None
    /\ result' = None
    /\ UNCHANGED <<calculator, entry, hass_states, now, data, sensor,
                   flows, config_entries>>

InitPlatform ==
    /\ calculator = VentilationCalculator(EmptyDict)
    /\ room_data = None
    /\ result = None
    /\ entry \in {Some(e) : e \in PlatformEntries}
    /\ hass_states = None
    /\ now = None
    /\ data = None
    /\ sensor = None
    /\ flows = None
    /\ config_entries = None

NextPlatform ==
    \/ SetupPlatform
    \/ UpdateData
    \/ ReturnPlatform

SpecPlatform == InitPlatform /\ [][NextPlatform]_vars

----------------------------------------------------------------------------
(* config_flow.py: RoomVentilationAdvisorOptionsFlow *)

MAX_ROOMS == 20

\* __init__: no room selected for the edit and remove steps
RoomVentilationAdvisorOptionsFlow ==
    [cur_step |-> "init", room_to_edit |-> None, room_to_remove |-> None]

\* self.async_show_form(step_id=..., errors=...)
async_show_form(step_id, errors) ==
    [type |-> "form", step_id |-> step_id, errors |-> errors, data |-> None]

\* self.async_create_entry(title="", data=...)
async_create_entry(options_data) ==
    [type |-> "create_entry", step_id |-> "", errors |-> EmptyDict,
     data |-> Some(options_data)]

\* what a step leaves behind: the flow instance, the config entry, the flow
\* result, and whether async_update_entry and async_reload were called
Outcome(self, e, flow_result, updated, reloaded) ==
    [self |-> self, entry |-> e, result |-> flow_result,
     updated |-> updated, reloaded |-> reloaded]

\* str.strip() on the strings of the model
strip(str) == IF str = " " THEN "" ELSE str

\* "Convert empty strings to None for CO2 sensor"
co2_sensor_value(user_input) ==
    LET v == Get(user_input, "co2_sensor", None)
    IN  IF v # None /\ Val(v) # "" /\ strip(Val(v)) = "" THEN None ELSE v

\* hass.config_entries.async_update_entry(self._config_entry, data=...)
\* with the rooms of the entry replaced
with_rooms(e, updated_rooms) ==
    [e EXCEPT !.data = Put(e.data, "rooms", updated_rooms)]

\* a dict without a key
Del(d, key) == [k \in DOMAIN d \ {key} |-> d[k]]

\* async_step_add_room with the duplicate check left out
async_step_add_room_no_duplicate_check(self, e, user_input, pytest) ==
    IF user_input = None
    THEN Outcome(self, e, async_show_form("add_room", EmptyDict), FALSE, FALSE)
    ELSE LET ui == Val(user_input)
             room_name == ui.room_name
             current_rooms == Get(e.data, "rooms", EmptyDict)
             new_room_config ==
                 [room_name |-> room_name,
                  temp_sensor |-> ui.temp_sensor,
                  humidity_sensor |-> ui.humidity_sensor,
                  room_type |-> ui.room_type,
                  co2_sensor |-> co2_sensor_value(ui),
                  enabled |-> Get(ui, "enabled", TRUE)]
         IN  IF Cardinality(DOMAIN current_rooms) >= MAX_ROOMS
             THEN Outcome(self, e,
                          async_show_form("add_room",
                              [room_name |-> "Maximum 20 rooms allowed"]),
                          FALSE, FALSE)
             ELSE Outcome(self,
                          with_rooms(e, Put(current_rooms, room_name,
                                            new_room_config)),
                          async_create_entry(EmptyDict), TRUE, ~pytest)

\* async_step_add_room; pytest: PYTEST_CURRENT_TEST is set
async_step_add_room(self, e, user_input, pytest) ==
    IF user_input = None
    THEN Outcome(self, e, async_show_form("add_room", EmptyDict), FALSE, FALSE)
    ELSE LET ui == Val(user_input)
             room_name == ui.room_name
             current_rooms == Get(e.data, "rooms", EmptyDict)
             new_room_config ==
                 [room_name |-> room_name,
                  temp_sensor |-> ui.temp_sensor,
                  humidity_sensor |-> ui.humidity_sensor,
                  room_type |-> ui.room_type,
                  co2_sensor |-> co2_sensor_value(ui),
                  enabled |-> Get(ui, "enabled", TRUE)]
         IN  IF room_name \in DOMAIN current_rooms
             THEN Outcome(self, e,
                          async_show_form("add_room",
                              [room_name |-> "Room name already exists"]),
                          FALSE, FALSE)
             ELSE IF Cardinality(DOMAIN current_rooms) >= MAX_ROOMS
             THEN Outcome(self, e,
                          async_show_form("add_room",
                              [room_name |-> "Maximum 20 rooms allowed"]),
                          FALSE, FALSE)
             ELSE Outcome(self,
                          with_rooms(e, Put(current_rooms, room_name,
                                            new_room_config)),
                          async_create_entry(EmptyDict), TRUE, ~pytest)

\* async_step_edit_room storing the room under the submitted room name
async_step_edit_room_renames(self, e, user_input) ==
    IF self.room_to_edit = None
    THEN Outcome(self, e, async_show_form("init", EmptyDict), FALSE, FALSE)
    ELSE IF user_input = None
    THEN Outcome(self, e, async_show_form("edit_room", EmptyDict), FALSE, FALSE)
    ELSE LET ui == Val(user_input)
             room_name == Val(self.room_to_edit)
             current_rooms == Get(e.data, "rooms", EmptyDict)
             current_room_config == Get(current_rooms, room_name, EmptyDict)
             updated_room_config ==
                 Update(current_room_config,
                        [temp_sensor |-> ui.temp_sensor,
                         humidity_sensor |-> ui.humidity_sensor,
                         room_type |-> ui.room_type,
                         co2_sensor |-> co2_sensor_value(ui),
                         enabled |-> Get(ui, "enabled", TRUE)])
         IN  Outcome([self EXCEPT !.room_to_edit = None],
                     with_rooms(e, Put(Del(current_rooms, room_name),
                                       ui.room_name, updated_room_config)),
                     async_create_entry(EmptyDict), TRUE, FALSE)

\* async_step_edit_room
async_step_edit_room(self, e, user_input) ==
    IF self.room_to_edit = None
    THEN Outcome(self, e, async_show_form("init", EmptyDict), FALSE, FALSE)
    ELSE IF user_input = None
    THEN Outcome(self, e, async_show_form("edit_room", EmptyDict), FALSE, FALSE)
    ELSE LET ui == Val(user_input)
             room_name == Val(self.room_to_edit)
             current_rooms == Get(e.data, "rooms", EmptyDict)
             current_room_config == Get(current_rooms, room_name, EmptyDict)
             updated_room_config ==
                 Update(current_room_config,
                        [temp_sensor |-> ui.temp_sensor,
                         humidity_sensor |-> ui.humidity_sensor,
                         room_type |-> ui.room_type,
                         co2_sensor |-> co2_sensor_value(ui),
                         enabled |-> Get(ui, "enabled", TRUE)])
         IN  Outcome([self EXCEPT !.room_to_edit = None],
                     with_rooms(e, Put(current_rooms, room_name,
                                       updated_room_config)),
                     async_create_entry(EmptyDict), TRUE, FALSE)

\* async_step_remove_room removing whatever confirm_remove says
async_step_remove_room_unconfirmed(self, e, user_input, pytest) ==
    IF self.room_to_remove = None
    THEN Outcome(self, e, async_show_form("init", EmptyDict), FALSE, FALSE)
    ELSE IF user_input = None
    THEN Outcome(self, e, async_show_form("remove_room", EmptyDict),
                 FALSE, FALSE)
    ELSE LET room_name == Val(self.room_to_remove)
             current_rooms == Get(e.data, "rooms", EmptyDict)
             cleared == [self EXCEPT !.room_to_remove = None]
         IN  IF room_name \in DOMAIN current_rooms
             THEN LET updated == with_rooms(e, Del(current_rooms, room_name))
                  IN  Outcome(cleared, updated,
                              async_create_entry(updated.data), TRUE, ~pytest)
             ELSE Outcome(cleared, e, async_show_form("init", EmptyDict),
                          FALSE, FALSE)

\* async_step_remove_room
async_step_remove_room(self, e, user_input, pytest) ==
    IF self.room_to_remove = None
    THEN Outcome(self, e, async_show_form("init", EmptyDict), FALSE, FALSE)
    ELSE IF user_input = None
    THEN Outcome(self, e, async_show_form("remove_room", EmptyDict),
                 FALSE, FALSE)
    ELSE LET ui == Val(user_input)
             room_name == Val(self.room_to_remove)
             current_rooms == Get(e.data, "rooms", EmptyDict)
             cleared == [self EXCEPT !.room_to_remove = None]
         IN  IF Get(ui, "confirm_remove", FALSE)
             THEN IF room_name \in DOMAIN current_rooms
                  THEN LET updated ==
                               with_rooms(e, Del(current_rooms, room_name))
                       IN  Outcome(cleared, updated,
                                   async_create_entry(updated.data),
                                   TRUE, ~pytest)
                  ELSE Outcome(cleared, e, async_show_form("init", EmptyDict),
                               FALSE, FALSE)
             ELSE Outcome(cleared, e, async_show_form("init", EmptyDict),
                          FALSE, FALSE)

\* the keys that async_step_basic copies from the form
BasicKeys ==
    {"outdoor_temp_sensor", "outdoor_humidity_sensor", "wind_sensor",
     "scan_interval", "enable_wind_factor"}

\* async_step_basic: options_data starts empty and takes the keys of the form
async_step_basic(self, e, user_input) ==
    IF user_input = None
    THEN Outcome(self, e, async_show_form("basic", EmptyDict), FALSE, FALSE)
    ELSE LET ui == Val(user_input)
             options_data == [k \in DOMAIN ui \cap BasicKeys |-> ui[k]]
         IN  Outcome(self, e, async_create_entry(options_data), FALSE, FALSE)

\* "Build nested advanced_settings from flat keys": the key of the form and
\* the key it becomes, by category
AdvancedKeys ==
    [temperature_thresholds |->
        [temperature_winter_good |-> "winter_good",
         temperature_winter_moderate |-> "winter_moderate",
         temperature_summer_good |-> "summer_good",
         temperature_summer_moderate |-> "summer_moderate",
         temperature_default_good |-> "default_good",
         temperature_default_moderate |-> "default_moderate"],
     humidity_thresholds |->
        [humidity_good |-> "good", humidity_moderate |-> "moderate"],
     co2_thresholds |->
        [co2_very_poor |-> "very_poor", co2_poor |-> "poor",
         co2_moderate |-> "moderate"],
     wind_thresholds |->
        [wind_no_effect |-> "no_effect",
         wind_moderate_effect |-> "moderate_effect"],
     score_weights |->
        [weight_temperature |-> "temperature", weight_humidity |-> "humidity",
         weight_co2 |-> "co2", weight_time |-> "time"]]

\* one category built from the flat keys of the form that are present
flat_category(user_input, keys) ==
    LET present == DOMAIN keys \cap DOMAIN user_input
    IN  [n \in {keys[k] : k \in present} |->
            user_input[CHOOSE k \in present : keys[k] = n]]

\* advanced_settings of the form: the nested dict if it carries one, else the
\* categories that the flat keys fill
submitted_advanced_settings(user_input) ==
    IF "advanced_settings" \in DOMAIN user_input
    THEN user_input.advanced_settings
    ELSE LET built == [c \in DOMAIN AdvancedKeys |->
                          flat_category(user_input, AdvancedKeys[c])]
         IN  [c \in {c \in DOMAIN AdvancedKeys : DOMAIN built[c] # {}} |->
                 built[c]]

\* async_step_advanced with the stored advanced settings dropped
async_step_advanced_replaces(self, e, user_input) ==
    IF user_input = None
    THEN Outcome(self, e, async_show_form("advanced", EmptyDict), FALSE, FALSE)
    ELSE LET advanced_settings == submitted_advanced_settings(Val(user_input))
             current_options ==
                 Put(e.options, "advanced_settings", advanced_settings)
         IN  Outcome(self, [e EXCEPT !.options = current_options],
                     async_create_entry(current_options), FALSE, FALSE)

\* async_step_advanced: dict.update of the stored advanced settings, which
\* is the dict that entry.options holds
async_step_advanced(self, e, user_input) ==
    IF user_input = None
    THEN Outcome(self, e, async_show_form("advanced", EmptyDict), FALSE, FALSE)
    ELSE LET advanced_settings == submitted_advanced_settings(Val(user_input))
             current_options ==
                 Put(e.options, "advanced_settings",
                     Update(Get(e.options, "advanced_settings", EmptyDict),
                            advanced_settings))
         IN  Outcome(self,
                     IF "advanced_settings" \in DOMAIN e.options
                     THEN [e EXCEPT !.options = current_options] ELSE e,
                     async_create_entry(current_options), FALSE, FALSE)

\* async_step_rooms
async_step_rooms(self, e, user_input) ==
    IF user_input = None
    THEN Outcome(self, e, async_show_form("rooms", EmptyDict), FALSE, FALSE)
    ELSE LET ui == Val(user_input)
             room_to_edit == Get(ui, "room_to_edit", None)
             room_to_remove == Get(ui, "room_to_remove", None)
         IN  IF Get(ui, "add_room", FALSE)
             THEN async_step_add_room(self, e, None, FALSE)
             ELSE IF Get(ui, "edit_room", FALSE) /\ room_to_edit # None
             THEN async_step_edit_room(
                      [self EXCEPT !.room_to_edit = room_to_edit], e, None)
             ELSE IF Get(ui, "remove_room", FALSE) /\ room_to_remove # None
             THEN async_step_remove_room(
                      [self EXCEPT !.room_to_remove = room_to_remove], e, None,
                      FALSE)
             ELSE Outcome(self, e, async_create_entry(ui), FALSE, FALSE)

\* async_step_init
async_step_init(self, e, user_input) ==
    IF user_input = None
    THEN Outcome(self, e, async_show_form("init", EmptyDict), FALSE, FALSE)
    ELSE LET ui == Val(user_input)
         IN  IF Get(ui, "configure_basic", FALSE)
             THEN async_step_basic(self, e, None)
             ELSE IF Get(ui, "configure_rooms", FALSE)
             THEN async_step_rooms(self, e, None)
             ELSE IF Get(ui, "configure_advanced", FALSE)
             THEN async_step_advanced(self, e, None)
             ELSE Outcome(self, e, async_create_entry(ui), FALSE, FALSE)

----------------------------------------------------------------------------
(* The options flows of one config entry, as the flow manager of Home      *)
(* Assistant drives them: a flow is opened, each submitted form goes to   *)
(* the step that showed it, and a create_entry result becomes the options *)
(* of the entry and ends the flow                                         *)

FlowIds == {"flow_1", "flow_2"}

RoomNames == {"Living Room", "Bedroom"}

\* the room forms that a user submits
RoomInputs ==
    { [room_name |-> room_name, temp_sensor |-> "sensor.t1",
       humidity_sensor |-> "sensor.h1", room_type |-> "bedroom"] :
        room_name \in RoomNames } \cup
    { [room_name |-> room_name, temp_sensor |-> "sensor.t2",
       humidity_sensor |-> "sensor.h2", room_type |-> "office",
       co2_sensor |-> Some("sensor.co2"), enabled |-> FALSE] :
        room_name \in RoomNames }

InitInputs ==
    { [configure_basic |-> basic, configure_rooms |-> rooms,
       configure_advanced |-> advanced] :
        <<basic, rooms, advanced>> \in
            {<<TRUE, FALSE, FALSE>>, <<FALSE, TRUE, FALSE>>,
             <<FALSE, FALSE, TRUE>>, <<FALSE, FALSE, FALSE>>} }

\* the rooms menu offers the rooms of the entry
RoomsInputs(e) ==
    LET room_names == DOMAIN Get(e.data, "rooms", EmptyDict)
    IN  {[add_room |-> TRUE], [add_room |-> FALSE]}
        \cup {[edit_room |-> TRUE, room_to_edit |-> Some(r)] : r \in room_names}
        \cup {[remove_room |-> TRUE, room_to_remove |-> Some(r)] :
                 r \in room_names}

RemoveInputs == {[confirm_remove |-> TRUE], [confirm_remove |-> FALSE]}

\* the basic forms that a user submits
BasicInputs ==
    { [enable_wind_factor |-> FALSE],
      [scan_interval |-> 600, enable_wind_factor |-> TRUE,
       wind_sensor |-> "sensor.gusts"] }

\* the advanced forms that a user submits: one nested as the tests submit
\* it, one with flat keys of the form; thresholds and weights in the units
\* of the calculator
AdvancedInputs ==
    { [advanced_settings |->
          [humidity_thresholds |-> [good |-> 20, moderate |-> 5]]],
      [co2_moderate |-> 700, wind_no_effect |-> 5,
       wind_moderate_effect |-> 20] }

\* the entry as the config flow created it, before or after options were saved
FlowEntries ==
    { [data |-> [name |-> "Room Ventilation Advisor",
                 outdoor_temp_sensor |-> "sensor.outdoor_temp",
                 outdoor_humidity_sensor |-> "sensor.outdoor_humidity",
                 wind_sensor |-> "sensor.wind",
                 rooms |-> rooms],
       options |-> options] :
        rooms \in
            { ("Living Room" :>
                  [room_name |-> "Living Room", temp_sensor |-> "sensor.t1",
                   humidity_sensor |-> "sensor.h1", room_type |-> "living_room",
                   co2_sensor |-> None, enabled |-> TRUE]) },
        options \in
            { EmptyDict,
              [advanced_settings |-> [co2_thresholds |-> [poor |-> 900]]] } }

\* the step that the flow manager calls with a submitted form
OptionsFlowStep(self, e, user_input, pytest) ==
    CASE self.cur_step = "init" -> async_step_init(self, e, Some(user_input))
      [] self.cur_step = "basic" -> async_step_basic(self, e, Some(user_input))
      [] self.cur_step = "advanced" ->
             async_step_advanced(self, e, Some(user_input))
      [] self.cur_step = "rooms" -> async_step_rooms(self, e, Some(user_input))
      [] self.cur_step = "add_room" ->
             async_step_add_room(self, e, Some(user_input), pytest)
      [] self.cur_step = "edit_room" ->
             async_step_edit_room(self, e, Some(user_input))
      [] self.cur_step = "remove_room" ->
             async_step_remove_room(self, e, Some(user_input), pytest)

\* the flow manager after a step: a form is shown and awaits its
\* submission; create_entry saves the data as the entry's options and ends
\* the flow
Configure(f, user_input, pytest) ==
    LET self == Val(flows[f])
        out == OptionsFlowStep(self, Val(entry), user_input, pytest)
    IN  /\ room_data' = Some([flow |-> f, step_id |-> self.cur_step,
                               user_input |-> user_input, self |-> self,
                               entry |-> Val(entry)])
        /\ result' = Some([op |-> "options_flow", result |-> out.result,
                            self |-> out.self, updated |-> out.updated,
                            reloaded |-> out.reloaded])
        /\ IF out.result.type = "form"
           THEN /\ flows' = [flows EXCEPT ![f] =
                                Some([out.self EXCEPT
                                         !.cur_step = out.result.step_id])]
                /\ entry' = Some(out.entry)
           ELSE /\ flows' = [flows EXCEPT ![f] = None]
                /\ entry' = Some([out.entry EXCEPT
                                     !.options = Val(out.result.data)])

\* the user opens the options dialog: async_get_options_flow, then
\* async_step_init()
OpenOptionsFlow ==
    /\ Idle
    /\ \E f \in FlowIds :
          /\ flows[f] = None
          /\ flows' = [flows EXCEPT ![f] =
                          Some(RoomVentilationAdvisorOptionsFlow)]
    /\ UNCHANGED <<calculator, room_data, result, entry, hass_states, now,
                   data, sensor, config_entries>>

\* the user closes the dialog
CloseOptionsFlow ==
    /\ Idle
    /\ \E f \in FlowIds :
          /\ flows[f] # None
          /\ flows' = [flows EXCEPT ![f] = None]
    /\ UNCHANGED <<calculator, room_data, result, entry, hass_states, now,
                   data, sensor, config_entries>>

SubmitInit ==
    /\ Idle
    /\ \E f \in FlowIds, user_input \in InitInputs :
          /\ flows[f] # None
          /\ Val(flows[f]).cur_step = "init"
          /\ Configure(f, user_input, FALSE)
    /\ UNCHANGED <<calculator, hass_states, now, data, sensor, config_entries>>

SubmitBasic ==
    /\ Idle
    /\ \E f \in FlowIds, user_input \in BasicInputs :
          /\ flows[f] # None
          /\ Val(flows[f]).cur_step = "basic"
          /\ Configure(f, user_input, FALSE)
    /\ UNCHANGED <<calculator, hass_states, now, data, sensor, config_entries>>

SubmitAdvanced ==
    /\ Idle
    /\ \E f \in FlowIds, user_input \in AdvancedInputs :
          /\ flows[f] # None
          /\ Val(flows[f]).cur_step = "advanced"
          /\ Configure(f, user_input, FALSE)
    /\ UNCHANGED <<calculator, hass_states, now, data, sensor, config_entries>>

SubmitRooms ==
    /\ Idle
    /\ \E f \in FlowIds, user_input \in RoomsInputs(Val(entry)) :
          /\ flows[f] # None
          /\ Val(flows[f]).cur_step = "rooms"
          /\ Configure(f, user_input, FALSE)
    /\ UNCHANGED <<calculator, hass_states, now, data, sensor, config_entries>>

SubmitAddRoom ==
    /\ Idle
    /\ \E f \in FlowIds, user_input \in RoomInputs, pytest \in BOOLEAN :
          /\ flows[f] # None
          /\ Val(flows[f]).cur_step = "add_room"
          /\ Configure(f, user_input, pytest)
    /\ UNCHANGED <<calculator, hass_states, now, data, sensor, config_entries>>

SubmitEditRoom ==
    /\ Idle
    /\ \E f \in FlowIds, user_input \in RoomInputs :
          /\ flows[f] # None
          /\ Val(flows[f]).cur_step = "edit_room"
          /\ Configure(f, user_input, FALSE)
    /\ UNCHANGED <<calculator, hass_states, now, data, sensor, config_entries>>

SubmitRemoveRoom ==
    /\ Idle
    /\ \E f \in FlowIds, user_input \in RemoveInputs, pytest \in BOOLEAN :
          /\ flows[f] # None
          /\ Val(flows[f]).cur_step = "remove_room"
          /\ Configure(f, user_input, pytest)
    /\ UNCHANGED <<calculator, hass_states, now, data, sensor, config_entries>>

\* VentilationDataUpdateCoordinator.__init__: the calculator of the
\* coordinator of an entry
coordinator_calculator(e) == VentilationCalculator(EmptyDict)

\* the readings of the scores computed between two visits of the options
\* dialog: strong wind, with and without a CO2 reading
FlowReadings ==
    { RoomData(<<20, 16>>, <<60, 50>>, 25, 8, 1, Some("living_room"), co2) :
        co2 \in {None, Some(750)} }

\* the entry is set up and a sensor computes its score: the coordinator is
\* constructed from the entry, native_value calls its calculator
SensorScore ==
    /\ Idle
    /\ \A f \in FlowIds : flows[f] = None
    /\ \E rd \in FlowReadings, tie_up \in BOOLEAN :
          LET self == coordinator_calculator(Val(entry))
              f == sub_factors(self, rd)
          IN  /\ tie_up => is_tie(final_calculation(self, rd.co2, f))
              /\ calculator' = self
              /\ room_data' = Some([entry |-> Val(entry), rd |-> rd])
              /\ result' = Some([op |-> "sensor_score", f |-> f,
                                 score |-> calculate_room_score(self, rd,
                                                                tie_up)])
    /\ UNCHANGED <<entry, hass_states, now, data, sensor,
                   flows, config_entries>>

ReturnFlow ==
    /\ ~Idle
    /\ room_data' = None
    /\ result' = None
    /\ UNCHANGED <<calculator, entry, hass_states, now, data, sensor,
                   flows, config_entries>>

InitFlow ==
    /\ calculator = VentilationCalculator(EmptyDict)
    /\ room_data = None
    /\ result = None
    /\ entry \in {Some(e) : e \in FlowEntries}
    /\ hass_states = None
    /\ now = None
    /\ data = None
    /\ sensor = None
    /\ flows = [f \in FlowIds |-> None]
    /\ config_entries = None

NextFlow ==
    \/ OpenOptionsFlow
    \/ CloseOptionsFlow
    \/ SubmitInit
    \/ SubmitBasic
    \/ SubmitAdvanced
    \/ SubmitRooms
    \/ SubmitAddRoom
    \/ SubmitEditRoom
    \/ SubmitRemoveRoom
    \/ SensorScore
    \/ ReturnFlow

SpecFlow == InitFlow /\ [][NextFlow]_vars

----------------------------------------------------------------------------
(* config_flow.py: RoomVentilationAdvisorConfigFlow *)

\* __init__: no base configuration and no rooms yet
RoomVentilationAdvisorConfigFlow ==
    [cur_step |-> "user", base_config |-> EmptyDict, rooms |-> EmptyDict]

\* self.async_abort(reason=...)
async_abort(reason) ==
    [type |-> "abort", step_id |-> "", errors |-> EmptyDict, data |-> None,
     reason |-> reason]

\* what a step of the config flow leaves behind: the flow instance and the
\* flow result
ConfigOutcome(self, flow_result) == [self |-> self, result |-> flow_result]

\* _async_create_entry: the base configuration with the rooms
flow_async_create_entry(self) ==
    async_create_entry(Put(self.base_config, "rooms", self.rooms))

\* async_step_room_setup
async_step_room_setup(self, user_input) ==
    IF user_input = None
    THEN ConfigOutcome(self, async_show_form("room_setup", EmptyDict))
    ELSE LET ui == Val(user_input)
             room_name == ui.room_name
             added ==
                 [self EXCEPT !.rooms =
                     Put(self.rooms, room_name,
                         [room_name |-> room_name,
                          temp_sensor |-> ui.temp_sensor,
                          humidity_sensor |-> ui.humidity_sensor,
                          room_type |-> ui.room_type,
                          co2_sensor |-> Get(ui, "co2_sensor", None),
                          enabled |-> Get(ui, "enabled", TRUE)])]
         IN  IF Get(ui, "add_another_room", FALSE)
             THEN ConfigOutcome(added, async_show_form("room_setup", EmptyDict))
             ELSE ConfigOutcome(added, flow_async_create_entry(added))

\* async_step_user; existing_entries: hass.config_entries.async_entries(DOMAIN)
async_step_user(self, existing_entries, user_input) ==
    IF existing_entries # << >>
    THEN ConfigOutcome(self, async_abort("already_configured"))
    ELSE IF user_input # None
    THEN async_step_room_setup([self EXCEPT !.base_config = Val(user_input)],
                               None)
    ELSE ConfigOutcome(self, async_show_form("user", EmptyDict))

----------------------------------------------------------------------------
(* The config flows of the domain, as the flow manager of Home Assistant  *)
(* drives them: a flow starts with async_step_user(), each submitted form *)
(* goes to the step that showed it, a create_entry result adds a config   *)
(* entry and ends the flow, an abort ends the flow                        *)

\* the rooms a config flow is let to collect before the model stops it
MaxSetupRooms == 21

\* the name of the n-th room
RoomName(n) == "Room " \o ToString(n)

UserInputs ==
    { [name |-> "Room Ventilation Advisor",
       outdoor_temp_sensor |-> "sensor.outdoor_temp",
       outdoor_humidity_sensor |-> "sensor.outdoor_humidity",
       wind_sensor |-> "sensor.wind", scan_interval |-> 300] }

\* the room forms of the wizard: the next new room, or the first room once
\* more; with add_another_room ticked or not
RoomSetupInputs(self) ==
    LET n == Cardinality(DOMAIN self.rooms)
    IN  { [room_name |-> room_name, temp_sensor |-> "sensor.t1",
           humidity_sensor |-> "sensor.h1", room_type |-> "bedroom",
           add_another_room |-> add_another_room] :
            room_name \in {RoomName(n + 1)} \cup
                           (IF n > 0 THEN {RoomName(1)} ELSE {}),
            add_another_room \in BOOLEAN }

\* the flow manager after a step of a config flow
ConfigFlowResult(f, step_id, user_input, self, out) ==
    /\ room_data' = Some([flow |-> f, step_id |-> step_id,
                           user_input |-> user_input, self |-> self,
                           entries |-> config_entries])
    /\ result' = Some([op |-> "config_flow", result |-> out.result,
                        self |-> out.self])
    /\ flows' = [flows EXCEPT ![f] =
                    IF out.result.type = "form"
                    THEN Some([out.self EXCEPT !.cur_step = out.result.step_id])
                    ELSE None]
    /\ config_entries' =
           IF out.result.type = "create_entry"
           THEN Append(config_entries,
                       [data |-> Val(out.result.data), options |-> EmptyDict])
           ELSE config_entries

\* the user starts the set-up of the integration: __init__, then
\* async_step_user()
OpenConfigFlow ==
    /\ Idle
    /\ \E f \in FlowIds :
          /\ flows[f] = None
          /\ ConfigFlowResult(f, "user", None, RoomVentilationAdvisorConfigFlow,
                              async_step_user(RoomVentilationAdvisorConfigFlow,
                                              config_entries, None))
    /\ UNCHANGED <<calculator, entry, hass_states, now, data, sensor>>

SubmitUser ==
    /\ Idle
    /\ \E f \in FlowIds, user_input \in UserInputs :
          /\ flows[f] # None
          /\ Val(flows[f]).cur_step = "user"
          /\ ConfigFlowResult(f, "user", Some(user_input), Val(flows[f]),
                              async_step_user(Val(flows[f]), config_entries,
                                              Some(user_input)))
    /\ UNCHANGED <<calculator, entry, hass_states, now, data, sensor>>

SubmitRoomSetup ==
    /\ Idle
    /\ \E f \in FlowIds :
          /\ flows[f] # None
          /\ Val(flows[f]).cur_step = "room_setup"
          /\ Cardinality(DOMAIN Val(flows[f]).rooms) < MaxSetupRooms
          /\ \E user_input \in RoomSetupInputs(Val(flows[f])) :
                ConfigFlowResult(f, "room_setup", Some(user_input),
                                 Val(flows[f]),
                                 async_step_room_setup(Val(flows[f]),
                                                       Some(user_input)))
    /\ UNCHANGED <<calculator, entry, hass_states, now, data, sensor>>

ReturnConfig ==
    /\ ~Idle
    /\ room_data' = None
    /\ result' = None
    /\ UNCHANGED <<calculator, entry, hass_states, now, data, sensor, flows,
                   config_entries>>

InitConfig ==
    /\ calculator = VentilationCalculator(EmptyDict)
    /\ room_data = None
    /\ result = None
    /\ entry = None
    /\ hass_states = None
    /\ now = None
    /\ data = None
    /\ sensor = None
    /\ flows = [f \in FlowIds |-> None]
    /\ config_entries = << >>

NextConfig ==
    \/ OpenConfigFlow
    \/ SubmitUser
    \/ SubmitRoomSetup
    \/ ReturnConfig

SpecConfig == InitConfig /\ [][NextConfig]_vars

----------------------------------------------------------------------------
(* Properties of the calculator *)

Called(op) == result # None /\ Val(result).op = op
Args == Val(room_data)
Res == Val(result)
config == calculator.config

\* C1: calculate_room_score returns round(S, 2), S the weighted sum of the
\* four sub-factors plus the wind factor, with the no-CO2 weights when the
\* CO2 reading is None and the with-CO2 weights when a reading is present;
\* only the presence of the reading selects the weights (0 ppm is present).
C1_ScoreIsRoundedWeightedSum ==
    Called("calculate_room_score") =>
        LET w == Get(Get(config, "advanced_settings", EmptyDict),
                     "score_weights", EmptyDict)
            f == Res.f
            S == IF Args.co2 = None
                 THEN Get(w, "temperature", 35) * f.f_t
                      + Get(w, "humidity", 35) * f.f_rh
                      + Get(w, "co2", 20) * f.f_co2
                      + Get(w, "time", 10) * f.f_time + 100 * f.f_w
                 ELSE Get(w, "temperature_with_co2", 25) * f.f_t
                      + Get(w, "humidity_with_co2", 25) * f.f_rh
                      + Get(w, "co2_with_sensor", 35) * f.f_co2
                      + Get(w, "time_with_co2", 15) * f.f_time + 100 * f.f_w
        IN  /\ Res.unrounded = S
            /\ 10 * Res.score - S \in -5 .. 5

\* a reading of 0 ppm, scored with the with-CO2 weights where the no-CO2
\* weights would give another sum
C1_Witness ==
    /\ Called("calculate_room_score")
    /\ Args.co2 = Some(0)
    /\ Res.unrounded # final_calculation(calculator, None, Res.f)

\* C2: the temperature factor is chosen by the season bucket of the month
\* (winter months first, then summer months, otherwise shoulder) and by
\* strict comparisons of diff with the bucket's good and moderate
\* thresholds: 0.8/0.4/0 in winter, 0.8/0.3/0 in summer, 0.6/0.3/0 otherwise.
C2_TemperatureFactorBySeason ==
    Called("calculate_temperature_factor") =>
        LET t == Get(Get(config, "advanced_settings", EmptyDict),
                     "temperature_thresholds", EmptyDict)
            winter == Args.month \in Get(config, "winter_months", {12, 1, 2})
            summer == Args.month \in Get(config, "summer_months", {6, 7, 8})
            diff == Args.temp_diff
            tier(good, moderate, hi, mid) ==
                /\ diff > good => Res.value = hi
                /\ diff <= good /\ diff > moderate => Res.value = mid
                /\ diff <= good /\ diff <= moderate => Res.value = 0
        IN  /\ winter =>
                tier(Get(t, "winter_good", 2), Get(t, "winter_moderate", 0), 8, 4)
            /\ ~winter /\ summer =>
                tier(Get(t, "summer_good", 3), Get(t, "summer_moderate", 0), 8, 3)
            /\ ~winter /\ ~summer =>
                tier(Get(t, "default_good", 1), Get(t, "default_moderate", -2), 6, 3)

\* a month in both month sets, a diff exactly at the winter good threshold
C2_Witness ==
    /\ Called("calculate_temperature_factor")
    /\ Args.month \in Get(config, "winter_months", {12, 1, 2})
                      \cap Get(config, "summer_months", {6, 7, 8})
    /\ Args.temp_diff = calculator.temp_winter_good
    /\ Res.value = 4

\* C3: with a CO2 reading the CO2 factor is 1.0 above very_poor, else 0.7
\* above poor, else 0.3 above moderate, else 0, all strictly; by default
\* 1300 ppm gives 1.0 and 800 ppm gives 0.
C3_Co2FactorFromReading ==
    Called("calculate_co2_factor") /\ Args.co2 # None =>
        LET t == Get(Get(config, "advanced_settings", EmptyDict),
                     "co2_thresholds", EmptyDict)
            very_poor == Get(t, "very_poor", 1200)
            poor == Get(t, "poor", 1000)
            moderate == Get(t, "moderate", 800)
            co2 == Val(Args.co2)
        IN  /\ co2 > very_poor => Res.value = 10
            /\ co2 <= very_poor /\ co2 > poor => Res.value = 7
            /\ co2 <= very_poor /\ co2 <= poor /\ co2 > moderate => Res.value = 3
            /\ co2 <= very_poor /\ co2 <= poor /\ co2 <= moderate => Res.value = 0
            /\ config = EmptyDict /\ co2 = 1300 => Res.value = 10
            /\ config = EmptyDict /\ co2 = 800 => Res.value = 0

C3_Witness ==
    /\ Called("calculate_co2_factor")
    /\ config = EmptyDict
    /\ Args.co2 = Some(800)
    /\ Res.value = 0

\* C4: without a CO2 reading the CO2 factor is the hourly table entry of the
\* room type for the five known room types, and exactly 0.2 at every hour
\* for any other room type, a missing one included.
C4_Co2FactorFromRoomType ==
    Called("calculate_co2_factor") /\ Args.co2 = None =>
        LET h == Args.hour
            rt == Args.room_type
        IN  /\ rt = Some("bedroom") =>
                Res.value = IF h \in (6 .. 9) \cup (21 .. 23) THEN 8 ELSE 2
            /\ rt = Some("bathroom") =>
                Res.value = IF h \in (6 .. 9) \cup (18 .. 22) THEN 7 ELSE 3
            /\ rt = Some("office") =>
                Res.value = IF h \in 8 .. 17 THEN 8 ELSE 2
            /\ rt = Some("kitchen") =>
                Res.value = IF h \in 6 .. 8 THEN 8
                            ELSE IF h \in (11 .. 13) \cup (17 .. 20) THEN 9 ELSE 3
            /\ rt = Some("living_room") =>
                Res.value = IF h \in 6 .. 9 THEN 7
                            ELSE IF h \in 17 .. 22 THEN 6
                            ELSE IF h \in 10 .. 16 THEN 3 ELSE 2
            /\ rt \notin {Some(t) : t \in
                    {"bedroom", "bathroom", "office", "kitchen", "living_room"}}
                => Res.value = 2

\* a missing room type at an hour where every known room type differs from 0.2
C4_Witness ==
    /\ Called("calculate_co2_factor")
    /\ Args.co2 = None
    /\ Args.room_type = None
    /\ Args.hour = 8
    /\ Res.value = 2

\* C5: the wind factor is 0 when disabled; otherwise 0 below no_effect, else
\* -0.2 below moderate_effect, else -0.5, so a speed equal to a threshold
\* gets the more negative tier (by default 15 gives -0.2 and 25 gives -0.5).
C5_WindFactorTiers ==
    Called("calculate_wind_factor") =>
        LET t == Get(Get(config, "advanced_settings", EmptyDict),
                     "wind_thresholds", EmptyDict)
            no_effect == Get(t, "no_effect", 15)
            moderate_effect == Get(t, "moderate_effect", 25)
            wind_speed == Args.wind_speed
        IN  /\ ~Args.enable_wind => Res.value = 0
            /\ Args.enable_wind =>
                /\ wind_speed < no_effect => Res.value = 0
                /\ wind_speed >= no_effect /\ wind_speed < moderate_effect
                    => Res.value = -2
                /\ wind_speed >= no_effect /\ wind_speed >= moderate_effect
                    => Res.value = -5
                /\ config = EmptyDict /\ wind_speed = 15 => Res.value = -2
                /\ config = EmptyDict /\ wind_speed = 25 => Res.value = -5

C5_Witness ==
    /\ Called("calculate_wind_factor")
    /\ config = EmptyDict
    /\ Args.enable_wind
    /\ Args.wind_speed = 15
    /\ Res.value = -2

\* C6: in both weight regimes the unrounded score with the wind factor
\* enabled minus the unrounded score with it disabled is exactly f_w
\* (0, -0.2 or -0.5), whatever the weights and the other sub-factors.
C6_WindIsAdditive ==
    Called("calculate_room_score") =>
        LET on == [calculator EXCEPT
                      !.config = Put(config, "enable_wind_factor", TRUE)]
            off == [calculator EXCEPT
                       !.config = Put(config, "enable_wind_factor", FALSE)]
            s_on == final_calculation(on, Args.co2, sub_factors(on, Args))
            s_off == final_calculation(off, Args.co2, sub_factors(off, Args))
            f_w == IF Args.wind_speed < on.wind_no_effect THEN 0
                   ELSE IF Args.wind_speed < on.wind_moderate_effect THEN -2
                   ELSE -5
        IN  /\ s_on - s_off = 100 * f_w
            /\ Res.unrounded =
                   IF Get(config, "enable_wind_factor", TRUE) THEN s_on ELSE s_off

\* strong wind on a reading with CO2 under overridden weights
C6_Witness ==
    /\ Called("calculate_room_score")
    /\ "advanced_settings" \in DOMAIN config
    /\ "score_weights" \in DOMAIN config.advanced_settings
    /\ Args.co2 # None
    /\ Res.f.f_w = -5
    /\ Res.f.f_t > 0

\* C7: with the default thresholds and weights the score of every reading
\* lies within [-0.5, 1.0].
C7_DefaultScoreRange ==
    Called("calculate_room_score") /\ config = EmptyDict =>
        Res.score \in -50 .. 100

\* the least score of the default configuration: strong wind and nothing else
C7_Witness ==
    /\ Called("calculate_room_score")
    /\ config = EmptyDict
    /\ Res.f.f_w = -5
    /\ Res.score = -47

C10_OverriddenPatternsAreUsed ==
    Called("calculate_room_score") /\ Args.co2 = None
        /\ Args.room_type \in {Some(t) : t \in ROOM_TYPES} =>
        LET rt == Val(Args.room_type)
            configured == calculator.room_patterns[rt]
            default == DEFAULT_ROOM_TIME_PATTERNS[rt]
            moved == \/ Args.hour \in configured.high \cap default.low
                     \/ Args.hour \in configured.low \cap default.high
        IN  moved =>
                Res.f.f_co2 #
                    sub_factors(VentilationCalculator(EmptyDict), Args).f_co2

\* C11: with the month and the configuration fixed, the temperature factor
\* never decreases when diff = indoor - outdoor temperature increases, in
\* each of the three season buckets.
C11_TemperatureFactorMonotone ==
    Called("calculate_temperature_factor") =>
        \A d2 \in Args.temp_diff .. MaxTempDiff :
            calculate_temperature_factor(calculator, d2, Args.month) >= Res.value

\* a winter diff between the two thresholds, a larger diff getting more
C11_Witness ==
    /\ Called("calculate_temperature_factor")
    /\ Args.month \in Get(config, "winter_months", {12, 1, 2})
    /\ Args.temp_diff > calculator.temp_winter_moderate
    /\ Res.value = 4
    /\ \E d2 \in Args.temp_diff .. MaxTempDiff :
           calculate_temperature_factor(calculator, d2, Args.month) = 8

\* C12: the humidity factor of diff = AH_indoor - AH_outdoor is 1.0 above
\* the good threshold, else 0.5 above the moderate threshold, else 0, both
\* strictly; by default a diff of exactly 1.0 g/m3 gives 0.5 and a diff of
\* exactly 0 gives 0.
C12_HumidityFactorTiers ==
    Called("calculate_humidity_factor") =>
        LET t == Get(Get(config, "advanced_settings", EmptyDict),
                     "humidity_thresholds", EmptyDict)
            good == Get(t, "good", 10) * 10000
            moderate == Get(t, "moderate", 0) * 10000
            diff == Args.ah_in - Args.ah_out
        IN  /\ diff > good => Res.value = 10
            /\ diff <= good /\ diff > moderate => Res.value = 5
            /\ diff <= good /\ diff <= moderate => Res.value = 0
            /\ config = EmptyDict /\ diff = 100000 => Res.value = 5
            /\ config = EmptyDict /\ diff = 0 => Res.value = 0

\* a diff of exactly 1.0 g/m3 under the default thresholds
C12_Witness ==
    /\ Called("calculate_humidity_factor")
    /\ config = EmptyDict
    /\ Args.ah_in - Args.ah_out = 100000
    /\ Res.value = 5

\* C13: the time factor depends on the hour alone: 0.8 at 7, 8, 9, 18, 19,
\* 20, 0.5 at 6, 10, 11, 16, 17, 21 and 0.2 at every other hour, for every
\* room type and every configuration, called on its own or by
\* calculate_room_score.
C13_TimeFactorByHourOnly ==
    LET table(hour) == IF hour \in {7, 8, 9, 18, 19, 20} THEN 8
                       ELSE IF hour \in {6, 10, 11, 16, 17, 21} THEN 5
                       ELSE 2
    IN  /\ Called("calculate_time_factor") => Res.value = table(Args.hour)
        /\ Called("calculate_room_score") => Res.f.f_time = table(Args.hour)

\* a reading at noon under the configuration whose high hours are 12..14
C13_Witness ==
    /\ Called("calculate_room_score")
    /\ Args.hour = 12
    /\ Args.hour \in calculator.time_high
    /\ Res.f.f_time = 2

\* C30: with a CO2 reading the score does not depend on the room type:
\* the readings of the call with any other room type give the same CO2
\* factor, the same sum and the same rounded score
C30_ScoreIndependentOfRoomType ==
    (Called("calculate_room_score") /\ Args.co2 # None) =>
        \A room_type \in RoomTypeInputs :
            LET other == [Args EXCEPT !.room_type = room_type]
                f == sub_factors(calculator, other)
                unrounded == final_calculation(calculator, other.co2, f)
            IN  /\ f = Res.f
                /\ unrounded = Res.unrounded
                /\ \A tie_up \in BOOLEAN :
                       calculate_room_score(calculator, other, tie_up)
                           = round2(Res.unrounded, tie_up)

\* a bedroom at 8 o'clock with 1300 ppm: the pattern would give 0.8, the
\* reading gives 1.0
C30_Witness ==
    /\ Called("calculate_room_score")
    /\ Args.co2 = Some(1300)
    /\ Args.room_type = Some("bedroom")
    /\ Args.hour = 8
    /\ room_type_pattern(Args.room_type, Args.hour) = 8
    /\ Res.f.f_co2 = 10

----------------------------------------------------------------------------
(* Properties of the sensor *)

\* C9: when a required reading (indoor temperature, indoor humidity, outdoor
\* temperature or outdoor humidity) is absent, calculate_room_score is not
\* invoked for the room, and the room's value is unknown (None).
C9_ScorerNotInvokedWithoutReading ==
    sensor # None /\ result # None =>
        /\ Val(room_data).temp_in # None
        /\ Val(room_data).humidity_in # None
        /\ Val(room_data).temp_out # None
        /\ Val(room_data).humidity_out # None

\* C14: _get_sensor_value yields a float or None and nothing else: None for
\* a None or empty entity id, for an entity that does not exist, for the
\* states 'unknown' and 'unavailable' and for a state that is not a number;
\* the number for a state that is one.
C14_SensorValueFloatOrAbsent ==
    Called("get_sensor_value") =>
        LET entity_id == Args.entity_id
            states == Val(hass_states)
            value == Res.value
            exists == entity_id \notin {None, Some("")}
                          /\ Val(entity_id) \in DOMAIN states
            state == states[Val(entity_id)]
        IN  /\ value = None \/ \E n \in -5 .. 21 : value = Some(n)
            /\ ~exists => value = None
            /\ exists /\ state \in {"unknown", "unavailable"} => value = None
            /\ exists /\ state \in {"not_a_number", ""} => value = None
            /\ exists /\ state = "21" => value = Some(21)
            /\ exists /\ state = "-5" => value = Some(-5)
            /\ exists /\ state = " 20 " => value = Some(20)
            /\ exists /\ state = "1e1" => value = Some(10)

\* an entity that exists with a state that is not a number
C14_Witness ==
    /\ Called("get_sensor_value")
    /\ Args.entity_id = Some("sensor.test")
    /\ "sensor.test" \in DOMAIN Val(hass_states)
    /\ Val(hass_states)["sensor.test"] = "not_a_number"
    /\ Res.value = None

C16_ScenarioAdviceModerate ==
    /\ sensor # None
    /\ Called("native_value")
    /\ Res.coordinator_data = Some(ScenarioData)
    /\ "ventilation_advice" \in DOMAIN Val(sensor).extra_state_attributes
    => /\ Val(sensor).extra_state_attributes.ventilation_advice =
              {"Moderate ventilation - consider opening windows briefly"}
       /\ Val(Val(sensor).native_value) \in 0 .. 49

\* C17: after _update_icon the icon is mdi:fan for a value of None, the
\* good icon from 0.5, the moderate icon in [0.0, 0.5) and the poor icon
\* below 0.0, so that the icon agrees with the advice for the same value:
\* the advices 'poor' and 'very poor' both have the poor icon.
C17_IconByScore ==
    Called("update_icon") =>
        LET value == Args.native_value
            score == Val(value)
            icon == Res.icon
            advice == Res.advice
        IN  /\ value = None => icon = "mdi:fan"
            /\ value # None =>
                /\ score >= 50 => icon = "mdi:fan-plus"
                /\ score >= 0 /\ score < 50 => icon = "mdi:fan-clock"
                /\ score < 0 => icon = "mdi:fan-alert"
            /\ icon = "mdi:fan" <=>
                   advice = "Unable to calculate ventilation advice"
            /\ icon = "mdi:fan-plus" <=>
                   advice = "Good ventilation - no action needed"
            /\ icon = "mdi:fan-clock" <=>
                   advice = "Moderate ventilation - consider opening windows briefly"
            /\ icon = "mdi:fan-alert" <=>
                   advice \in
                       {"Poor ventilation - open windows for 10-15 minutes",
                        "Very poor ventilation - ventilate immediately for 20+ minutes"}

\* a score below -0.3: the advice is 'very poor', the icon the poor one
C17_Witness ==
    /\ Called("update_icon")
    /\ Args.native_value = Some(-31)
    /\ Res.icon = "mdi:fan-alert"
    /\ Res.advice = "Very poor ventilation - ventilate immediately for 20+ minutes"

\* the values that native_value computes from the coordinator data as it
\* is now, at any time of the clock and either rounding of a tie
CurrentScores ==
    { native_value(Val(sensor), data, clock, calculator, tie_up) :
        clock \in Clocks, tie_up \in BOOLEAN }

\* C24: once the sensor has reported a value, the value it reports is the
\* score of the most recent coordinator data: a new score after the
\* readings changed, None after the readings disappeared; the score
\* attribute that an update has written is that value too
C24_ReportedValueIsCurrent ==
    (sensor # None /\ data # None /\ Val(sensor).cached) =>
        /\ Val(sensor).native_value \in CurrentScores
        /\ "ventilation_score" \in DOMAIN Val(sensor).extra_state_attributes =>
               Val(sensor).extra_state_attributes.ventilation_score
                   \in CurrentScores

\* the rooms that the configuration of the entry does not disable
ConfigEnabledRooms(e) ==
    LET rooms == Get(e.data, "rooms", EmptyDict)
    IN  {r \in DOMAIN rooms :
            IF "enabled" \in DOMAIN rooms[r] THEN rooms[r].enabled ELSE TRUE}

\* C22: async_setup_entry calls async_add_entities exactly once, with one
\* sensor for every room whose enabled flag is true or missing and none for
\* the others (no sensor when there is no room), and with
\* update_before_add=True
C22_EntitiesAddedOnceWithUpdate ==
    Called("async_setup_entry") =>
        LET calls == Res.add_entities_calls
            entities == calls[1].entities
        IN  /\ Len(calls) = 1
            /\ {x.room_name : x \in entities} = ConfigEnabledRooms(Args.entry)
            /\ Cardinality(entities) = Cardinality(ConfigEnabledRooms(Args.entry))
            /\ calls[1].update_before_add = TRUE

\* the rooms that are enabled: by the options' room_settings if they say,
\* else by the room's configuration, else they are
EnabledRooms(e) ==
    LET rooms == Get(e.data, "rooms", EmptyDict)
        room_settings == Get(e.options, "room_settings", EmptyDict)
    IN  {r \in DOMAIN rooms :
            IF r \in DOMAIN room_settings /\ "enabled" \in DOMAIN room_settings[r]
            THEN room_settings[r].enabled
            ELSE IF "enabled" \in DOMAIN rooms[r] THEN rooms[r].enabled
            ELSE TRUE}

\* C23: after every update of the coordinator, the first one in
\* async_setup_entry included, the rooms of its data are the enabled rooms:
\* a disabled room is not among them, an enabled room is, whatever its
\* entities read
C23_DataRoomsAreEnabledRooms ==
    (data # None /\ entry # None) =>
        /\ DOMAIN Val(data).rooms = EnabledRooms(Val(entry))
        /\ Called("async_update_data") =>
               DOMAIN Res.value.rooms = EnabledRooms(Args.entry)

\* 'Living Room' is disabled in its configuration and enabled by the
\* options, 'Office' the other way round, and the indoor temperature is not
\* a number: the data has 'Living Room' only
C23_Witness ==
    /\ Called("async_update_data")
    /\ DOMAIN Args.entry.data.rooms = {"Living Room", "Office"}
    /\ Get(Args.entry.data.rooms["Living Room"], "enabled", TRUE) = FALSE
    /\ "enabled" \notin DOMAIN Args.entry.data.rooms["Office"]
    /\ Get(Args.entry.options, "room_settings", EmptyDict)
           = [r \in {"Living Room", "Office"} |->
                 [enabled |-> r = "Living Room"]]
    /\ Val(hass_states)["sensor.temp"] = "not_a_number"
    /\ DOMAIN Val(data).rooms = {"Living Room"}
    /\ Val(data).rooms["Living Room"].indoor_temp = None

----------------------------------------------------------------------------
(* Properties of the options flow *)

\* a form of the given step was submitted and the step has answered
Submitted(step_id) ==
    Called("options_flow") /\ Args.step_id = step_id

RoomsBefore == Get(Args.entry.data, "rooms", EmptyDict)
RoomsAfter == Get(Val(entry).data, "rooms", EmptyDict)

\* C18: submitting the add_room form with a room name that the entry already
\* has shows the add_room form again with an error on room_name; the entry
\* is left as it was, async_update_entry and async_reload are not called
C18_DuplicateRoomNameRejected ==
    (Submitted("add_room") /\ Args.user_input.room_name \in DOMAIN RoomsBefore)
    =>  /\ Res.result.type = "form"
        /\ Res.result.step_id = "add_room"
        /\ "room_name" \in DOMAIN Res.result.errors
        /\ Val(entry) = Args.entry
        /\ ~Res.updated
        /\ ~Res.reloaded

\* a room form for 'Living Room' with other sensors than the stored room
\* has, submitted outside of a test run: rejected
C18_Witness ==
    /\ Submitted("add_room")
    /\ Args.user_input.room_name = "Living Room"
    /\ "Living Room" \in DOMAIN RoomsBefore
    /\ Args.user_input.temp_sensor # RoomsBefore["Living Room"].temp_sensor
    /\ Res.result.errors = [room_name |-> "Room name already exists"]
    /\ RoomsAfter = RoomsBefore

C19_WitnessDeclined ==
    /\ Submitted("remove_room")
    /\ Args.self.room_to_remove = Some("Living Room")
    /\ ~Args.user_input.confirm_remove
    /\ DOMAIN RoomsAfter = {"Living Room", "Bedroom"}
    /\ Res.result.step_id = "init"

\* C20: submitting the edit_room form for the selected room R sets the
\* temperature sensor, humidity sensor, room type, CO2 sensor and enabled
\* flag of R to the submitted values (no CO2 sensor and enabled when the
\* form leaves them out), keeps R under its room name whatever name the form
\* carries, leaves every other room as it was and clears the selection
C20_EditRoomFrame ==
    (Submitted("edit_room") /\ Args.self.room_to_edit # None)
    =>  LET R == Val(Args.self.room_to_edit)
            user_input == Args.user_input
        IN  /\ R \in DOMAIN RoomsAfter
            /\ RoomsAfter[R].temp_sensor = user_input.temp_sensor
            /\ RoomsAfter[R].humidity_sensor = user_input.humidity_sensor
            /\ RoomsAfter[R].room_type = user_input.room_type
            /\ RoomsAfter[R].co2_sensor = Get(user_input, "co2_sensor", None)
            /\ RoomsAfter[R].enabled = Get(user_input, "enabled", TRUE)
            /\ DOMAIN RoomsAfter = DOMAIN RoomsBefore \cup {R}
            /\ (R \in DOMAIN RoomsBefore
                    /\ "room_name" \in DOMAIN RoomsBefore[R]) =>
                   /\ "room_name" \in DOMAIN RoomsAfter[R]
                   /\ RoomsAfter[R].room_name = RoomsBefore[R].room_name
            /\ \A other \in DOMAIN RoomsBefore \ {R} :
                   RoomsAfter[other] = RoomsBefore[other]
            /\ Res.self.room_to_edit = None

\* 'Living Room' is edited with a form that carries the name 'Bedroom',
\* while a room 'Bedroom' exists: every field of 'Living Room' changes,
\* 'Bedroom' does not
C20_Witness ==
    /\ Submitted("edit_room")
    /\ Args.self.room_to_edit = Some("Living Room")
    /\ Args.user_input.room_name = "Bedroom"
    /\ DOMAIN RoomsBefore = {"Living Room", "Bedroom"}
    /\ RoomsBefore["Living Room"].temp_sensor = "sensor.t1"
    /\ RoomsBefore["Living Room"].co2_sensor = None
    /\ RoomsBefore["Living Room"].enabled
    /\ RoomsAfter["Living Room"].temp_sensor = "sensor.t2"
    /\ RoomsAfter["Living Room"].co2_sensor = Some("sensor.co2")
    /\ ~RoomsAfter["Living Room"].enabled
    /\ RoomsAfter["Living Room"].room_name = "Living Room"
    /\ RoomsAfter["Bedroom"] = RoomsBefore["Bedroom"]

OptionsBefore == Args.entry.options
AdvancedBefore == Get(OptionsBefore, "advanced_settings", EmptyDict)
AdvancedAfter == Get(Val(entry).options, "advanced_settings", EmptyDict)

\* C21: the advanced step merges by category: a category that the form does
\* not carry keeps the value stored before (and is absent if it was), a
\* category that the form carries holds the submitted values and nothing
\* else; the other keys of the options stay; the merged options are the
\* data of the result
C21_AdvancedSettingsMerged ==
    Submitted("advanced") =>
        LET user_input == Args.user_input
            nested == "advanced_settings" \in DOMAIN user_input
            flat(c) == DOMAIN AdvancedKeys[c] \cap DOMAIN user_input
            submitted(c) ==
                IF nested THEN c \in DOMAIN user_input.advanced_settings
                ELSE flat(c) # {}
        IN  /\ Res.result.type = "create_entry"
            /\ Val(Res.result.data) = Val(entry).options
            /\ \A k \in DOMAIN OptionsBefore \ {"advanced_settings"} :
                   /\ k \in DOMAIN Val(entry).options
                   /\ Val(entry).options[k] = OptionsBefore[k]
            /\ \A c \in DOMAIN AdvancedKeys :
                   /\ ~submitted(c) =>
                          /\ c \in DOMAIN AdvancedAfter <=>
                                 c \in DOMAIN AdvancedBefore
                          /\ c \in DOMAIN AdvancedBefore =>
                                 AdvancedAfter[c] = AdvancedBefore[c]
                   /\ submitted(c) /\ nested =>
                          AdvancedAfter[c] = user_input.advanced_settings[c]
                   /\ submitted(c) /\ ~nested =>
                          /\ DOMAIN AdvancedAfter[c] =
                                 {AdvancedKeys[c][k] : k \in flat(c)}
                          /\ \A k \in flat(c) :
                                 AdvancedAfter[c][AdvancedKeys[c][k]]
                                     = user_input[k]

\* humidity thresholds are submitted while CO2 thresholds are stored: both
\* are in the options afterwards
C21_Witness ==
    /\ Submitted("advanced")
    /\ "advanced_settings" \in DOMAIN Args.user_input
    /\ DOMAIN AdvancedBefore = {"co2_thresholds"}
    /\ AdvancedBefore.co2_thresholds = [poor |-> 900]
    /\ AdvancedAfter =
           [co2_thresholds |-> [poor |-> 900],
            humidity_thresholds |-> [good |-> 20, moderate |-> 5]]

\* C26: the basic, add_room and edit_room steps keep the saved options: the
\* data of their create_entry result holds every key of the options before
\* the step that the form does not edit, advanced_settings among them, with
\* the value it had
C26_OptionsKept ==
    (/\ Called("options_flow")
     /\ Args.step_id \in {"basic", "add_room", "edit_room"}
     /\ Res.result.type = "create_entry")
    =>  LET edited == IF Args.step_id = "basic"
                      THEN DOMAIN Args.user_input \cap BasicKeys ELSE {}
            returned == Val(Res.result.data)
        IN  \A k \in DOMAIN OptionsBefore \ edited :
                /\ k \in DOMAIN returned
                /\ returned[k] = OptionsBefore[k]

\* C29: a submitted edit_room form neither adds nor removes a room: the
\* room names of the entry are the same before and after the step, whatever
\* other options flows did to the entry since the room was selected
C29_EditKeepsRoomNames ==
    Submitted("edit_room") => DOMAIN RoomsAfter = DOMAIN RoomsBefore

\* C25: the options saved through the options flow are the configuration of
\* the scores computed afterwards: with enable_wind_factor saved as False the
\* wind factor is 0, and the sub-factors and the score are those of a
\* calculator configured with the saved options
C25_SavedOptionsUsedForScoring ==
    Called("sensor_score") =>
        LET options == Val(entry).options
            configured == VentilationCalculator(options)
        IN  /\ Get(options, "enable_wind_factor", TRUE) = FALSE =>
                   Res.f.f_w = 0
            /\ Res.f = sub_factors(configured, Args.rd)
            /\ Res.score \in { calculate_room_score(configured, Args.rd, tie_up) :
                                  tie_up \in BOOLEAN }

----------------------------------------------------------------------------
(* Properties of the config flow *)

\* C27: no config entry ever stores more than MAX_ROOMS rooms, whatever the
\* room_setup forms of the wizard and the add_room, edit_room and
\* remove_room steps of the options flow did
C27_RoomsAtMostMaxRooms ==
    /\ \A i \in DOMAIN config_entries :
           Cardinality(DOMAIN Get(config_entries[i].data, "rooms", EmptyDict))
               <= MAX_ROOMS
    /\ entry # None =>
           Cardinality(DOMAIN Get(Val(entry).data, "rooms", EmptyDict))
               <= MAX_ROOMS

\* C28: there is at most one config entry of the domain, under every
\* interleaving of the steps of the config flows, and async_step_user
\* aborts with already_configured when there is one
C28_SingleConfigEntry ==
    /\ Len(config_entries) <= 1
    /\ (Called("config_flow") /\ Args.step_id = "user"
            /\ Args.entries # << >>) =>
           /\ Res.result.type = "abort"
           /\ Res.result.reason = "already_configured"

============================================================================
